---------------------------- MODULE Spec2Model ----------------------------
(***************************************************************************)
(* The orchestration core of the roadmap refiner: classification of a      *)
(* request, routing to one pipeline, the Strategist/Refiner refinement     *)
(* loop, the two multi-agent synthesis pipelines and the public API        *)
(* wrapper.                                                                *)
(*                                                                         *)
(* Python strings are sequences of one-character strings, so that len,     *)
(* slicing, `in`, lower() and concatenation are computed as Python         *)
(* computes them.  Glyphs outside ASCII that occur in literals of the      *)
(* source (emoji in headings) and backquotes are left out of the literals. *)
(* A Python dict is a function whose domain is its set of keys.            *)
(* Confidence values are in hundredths (0.85 is 85).  The tokenizer and    *)
(* the clock are libraries: count_tokens is a total function of the text,  *)
(* a reading of the clock is the value Now.                                *)
(***************************************************************************)
EXTENDS Integers, Sequences, FiniteSets, TLC

----------------------------------------------------------------------------
(* Strings *)

\* None: a value that is no string (a string holds one-character items only)
None == <<"None">>

Min(a, b) == IF a < b THEN a ELSE b
Max(a, b) == IF a > b THEN a ELSE b

\* s[a:b] of Python for 0 <= a, 0 <= b (0-based, end exclusive, clipped to the string)
Slice(s, a, b) == SubSeq(s, a + 1, Min(b, Len(s)))

\* a sequence with its items computed
Computed(seq) == SubSeq(seq, 1, Len(seq))

\* the element of a set of one element: Only({e(v) : v \in {x}}) is e(x) with x
\* computed once
Only(S) == CHOOSE x \in S : TRUE

\* one character of str.lower() on the ASCII letters
LowerChar(c) ==
    CASE c = "A" -> "a" [] c = "B" -> "b" [] c = "C" -> "c" [] c = "D" -> "d"
      [] c = "E" -> "e" [] c = "F" -> "f" [] c = "G" -> "g" [] c = "H" -> "h"
      [] c = "I" -> "i" [] c = "J" -> "j" [] c = "K" -> "k" [] c = "L" -> "l"
      [] c = "M" -> "m" [] c = "N" -> "n" [] c = "O" -> "o" [] c = "P" -> "p"
      [] c = "Q" -> "q" [] c = "R" -> "r" [] c = "S" -> "s" [] c = "T" -> "t"
      [] c = "U" -> "u" [] c = "V" -> "v" [] c = "W" -> "w" [] c = "X" -> "x"
      [] c = "Y" -> "y" [] c = "Z" -> "z" [] OTHER -> c

\* str.lower()
Lower(s) == [i \in 1..Len(s) |-> LowerChar(s[i])]

\* `k in t` of Python for strings: k occurs in t as a substring
Contains(t, k) ==
    \E i \in 1..(Len(t) - Len(k) + 1) : \A j \in 1..Len(k) : t[i + j - 1] = k[j]

\* any(term in t for term in terms)
AnyIn(terms, t) == \E n \in 1..Len(terms) : Contains(t, terms[n])

\* sum(1 for keyword in keywords if keyword in t)
CountIn(keywords, t) == Cardinality({n \in 1..Len(keywords) : Contains(t, keywords[n])})

\* s.startswith(p)
StartsWith(s, p) == Len(p) <= Len(s) /\ SubSeq(s, 1, Len(p)) = p

\* the decimal digits of a natural number, as str(n) writes them
Digit(d) == <<"0","1","2","3","4","5","6","7","8","9">>[d + 1]
RECURSIVE Str(_)
Str(n) == IF n < 10 THEN <<Digit(n)>> ELSE Str(n \div 10) \o <<Digit(n % 10)>>

----------------------------------------------------------------------------
(* Project Classifier: MultiAgentOrchestrator._is_complex_ai_project and   *)
(* _is_iot_hardware_project                                                *)

\* 'ai agent', 'multi-agent', 'market research', 'ai system', 'machine learning', 'automated research', 'ai team', 'intelligent system', 'data analysis', 'market intelligence', 'business intelligence', 'opportunity identification', 'trend analysis', 'competitive intelligence', 'search all projects', 'study different industries', 'identify problems', 'solutions', 'market potential', 'daily idea', 'unbeatable', 'profit', 'internet search', 'analyze market', 'product launch'
ai_keywords ==
  << <<"a","i"," ","a","g","e","n","t">>,
     <<"m","u","l","t","i","-","a","g","e","n","t">>,
     <<"m","a","r","k","e","t"," ","r","e","s","e","a","r","c","h">>,
     <<"a","i"," ","s","y","s","t","e","m">>,
     <<"m","a","c","h","i","n","e"," ","l","e","a","r","n","i","n","g">>,
     <<"a","u","t","o","m","a","t","e","d"," ","r","e","s","e","a","r","c","h">>,
     <<"a","i"," ","t","e","a","m">>,
     <<"i","n","t","e","l","l","i","g","e","n","t"," ","s","y","s","t","e","m">>,
     <<"d","a","t","a"," ","a","n","a","l","y","s","i","s">>,
     <<"m","a","r","k","e","t"," ","i","n","t","e","l","l","i","g","e","n","c","e">>,
     <<"b","u","s","i","n","e","s","s"," ","i","n","t","e","l","l","i","g","e","n","c","e">>,
     <<"o","p","p","o","r","t","u","n","i","t","y"," ","i","d","e","n","t","i","f","i","c","a",
       "t","i","o","n">>,
     <<"t","r","e","n","d"," ","a","n","a","l","y","s","i","s">>,
     <<"c","o","m","p","e","t","i","t","i","v","e"," ","i","n","t","e","l","l","i","g","e","n",
       "c","e">>,
     <<"s","e","a","r","c","h"," ","a","l","l"," ","p","r","o","j","e","c","t","s">>,
     <<"s","t","u","d","y"," ","d","i","f","f","e","r","e","n","t"," ","i","n","d","u","s","t",
       "r","i","e","s">>,
     <<"i","d","e","n","t","i","f","y"," ","p","r","o","b","l","e","m","s">>,
     <<"s","o","l","u","t","i","o","n","s">>,
     <<"m","a","r","k","e","t"," ","p","o","t","e","n","t","i","a","l">>,
     <<"d","a","i","l","y"," ","i","d","e","a">>,
     <<"u","n","b","e","a","t","a","b","l","e">>,
     <<"p","r","o","f","i","t">>,
     <<"i","n","t","e","r","n","e","t"," ","s","e","a","r","c","h">>,
     <<"a","n","a","l","y","z","e"," ","m","a","r","k","e","t">>,
     <<"p","r","o","d","u","c","t"," ","l","a","u","n","c","h">> >>

\* 'ai agent', 'ai system', 'ai team', 'multi-agent'
ai_terms ==
  << <<"a","i"," ","a","g","e","n","t">>,
     <<"a","i"," ","s","y","s","t","e","m">>,
     <<"a","i"," ","t","e","a","m">>,
     <<"m","u","l","t","i","-","a","g","e","n","t">> >>

\* 'research', 'analysis', 'study', 'identify', 'search'
research_terms ==
  << <<"r","e","s","e","a","r","c","h">>,
     <<"a","n","a","l","y","s","i","s">>,
     <<"s","t","u","d","y">>,
     <<"i","d","e","n","t","i","f","y">>,
     <<"s","e","a","r","c","h">> >>

\* 'market', 'industry', 'profit', 'product', 'business'
market_terms ==
  << <<"m","a","r","k","e","t">>,
     <<"i","n","d","u","s","t","r","y">>,
     <<"p","r","o","f","i","t">>,
     <<"p","r","o","d","u","c","t">>,
     <<"b","u","s","i","n","e","s","s">> >>

\* 'iot', 'esp32', 'arduino', 'raspberry pi', 'sensor', 'microcontroller', 'smart home', 'automation', 'monitoring', 'control system', 'aquarium', 'greenhouse', 'weather station', 'security system', 'temperature sensor', 'ph sensor', 'ultrasonic', 'relay', 'wifi module', 'bluetooth', 'mqtt', 'cloud integration'
iot_keywords ==
  << <<"i","o","t">>,
     <<"e","s","p","3","2">>,
     <<"a","r","d","u","i","n","o">>,
     <<"r","a","s","p","b","e","r","r","y"," ","p","i">>,
     <<"s","e","n","s","o","r">>,
     <<"m","i","c","r","o","c","o","n","t","r","o","l","l","e","r">>,
     <<"s","m","a","r","t"," ","h","o","m","e">>,
     <<"a","u","t","o","m","a","t","i","o","n">>,
     <<"m","o","n","i","t","o","r","i","n","g">>,
     <<"c","o","n","t","r","o","l"," ","s","y","s","t","e","m">>,
     <<"a","q","u","a","r","i","u","m">>,
     <<"g","r","e","e","n","h","o","u","s","e">>,
     <<"w","e","a","t","h","e","r"," ","s","t","a","t","i","o","n">>,
     <<"s","e","c","u","r","i","t","y"," ","s","y","s","t","e","m">>,
     <<"t","e","m","p","e","r","a","t","u","r","e"," ","s","e","n","s","o","r">>,
     <<"p","h"," ","s","e","n","s","o","r">>,
     <<"u","l","t","r","a","s","o","n","i","c">>,
     <<"r","e","l","a","y">>,
     <<"w","i","f","i"," ","m","o","d","u","l","e">>,
     <<"b","l","u","e","t","o","o","t","h">>,
     <<"m","q","t","t">>,
     <<"c","l","o","u","d"," ","i","n","t","e","g","r","a","t","i","o","n">> >>

\* 'iot', 'esp32', 'arduino', 'sensor', 'smart'
iot_terms ==
  << <<"i","o","t">>,
     <<"e","s","p","3","2">>,
     <<"a","r","d","u","i","n","o">>,
     <<"s","e","n","s","o","r">>,
     <<"s","m","a","r","t">> >>

\* 'components', 'pricing', 'wiring', 'setup'
hardware_setup_terms ==
  << <<"c","o","m","p","o","n","e","n","t","s">>,
     <<"p","r","i","c","i","n","g">>,
     <<"w","i","r","i","n","g">>,
     <<"s","e","t","u","p">> >>

\* 'monitoring', 'control', 'tracking', 'automation'
monitoring_terms ==
  << <<"m","o","n","i","t","o","r","i","n","g">>,
     <<"c","o","n","t","r","o","l">>,
     <<"t","r","a","c","k","i","n","g">>,
     <<"a","u","t","o","m","a","t","i","o","n">> >>

\* variant: five matching keywords are not enough, it takes six (C28 fails
\* under it)
_is_complex_ai_project_six(user_input) ==
    LET user_lower == Lower(user_input)
        keyword_matches == CountIn(ai_keywords, user_lower)
        has_ai_terms == AnyIn(ai_terms, user_lower)
        has_research_terms == AnyIn(research_terms, user_lower)
        has_market_terms == AnyIn(market_terms, user_lower)
    IN  (has_ai_terms /\ (has_research_terms \/ has_market_terms)) \/ keyword_matches > 5

_is_complex_ai_project(user_input) ==
    LET user_lower == Lower(user_input)
        keyword_matches == CountIn(ai_keywords, user_lower)
        has_ai_terms == AnyIn(ai_terms, user_lower)
        has_research_terms == AnyIn(research_terms, user_lower)
        has_market_terms == AnyIn(market_terms, user_lower)
    IN  (has_ai_terms /\ (has_research_terms \/ has_market_terms)) \/ keyword_matches >= 5

_is_iot_hardware_project(user_input) ==
    LET user_lower == Lower(user_input)
        iot_matches == CountIn(iot_keywords, user_lower)
        has_iot_terms == AnyIn(iot_terms, user_lower)
        has_hardware_terms == AnyIn(hardware_setup_terms, user_lower)
        has_monitoring_terms == AnyIn(monitoring_terms, user_lower)
    IN  (has_iot_terms /\ (has_hardware_terms \/ has_monitoring_terms)) \/ iot_matches >= 3

\* the keyword lists of StrategistAgent._detect_project_type, by bucket
type_keywords ==
    [iot |->
       << <<"i","o","t">>,
          <<"s","e","n","s","o","r">>,
          <<"a","r","d","u","i","n","o">>,
          <<"r","a","s","p","b","e","r","r","y"," ","p","i">>,
          <<"e","s","p","3","2">>,
          <<"m","o","n","i","t","o","r","i","n","g">>,
          <<"s","m","a","r","t">>,
          <<"a","u","t","o","m","a","t","i","o","n">> >>,
     mobile |->
       << <<"m","o","b","i","l","e"," ","a","p","p">>,
          <<"i","o","s">>,
          <<"a","n","d","r","o","i","d">>,
          <<"s","m","a","r","t","p","h","o","n","e">>,
          <<"a","p","p"," ","s","t","o","r","e">>,
          <<"m","o","b","i","l","e">> >>,
     web |->
       << <<"w","e","b","s","i","t","e">>,
          <<"w","e","b"," ","a","p","p">>,
          <<"d","a","s","h","b","o","a","r","d">>,
          <<"p","o","r","t","a","l">>,
          <<"o","n","l","i","n","e"," ","p","l","a","t","f","o","r","m">>,
          <<"w","e","b">> >>,
     ai |->
       << <<"a","i">>,
          <<"m","a","c","h","i","n","e"," ","l","e","a","r","n","i","n","g">>,
          <<"c","h","a","t","b","o","t">>,
          <<"r","e","c","o","m","m","e","n","d","a","t","i","o","n">>,
          <<"p","r","e","d","i","c","t","i","o","n">>,
          <<"n","l","p">> >>,
     ecommerce |->
       << <<"e","-","c","o","m","m","e","r","c","e">>,
          <<"m","a","r","k","e","t","p","l","a","c","e">>,
          <<"s","h","o","p","p","i","n","g">>,
          <<"p","a","y","m","e","n","t">>,
          <<"c","a","r","t">>,
          <<"s","t","o","r","e">> >>]

\* variant: the e-commerce keywords are tested before the web keywords
\* (C27 fails under it)
_detect_project_type_shop_first(user_input) ==
    LET user_lower == Lower(user_input)
    IN  IF AnyIn(type_keywords.iot, user_lower) THEN "iot_hardware"
        ELSE IF AnyIn(type_keywords.mobile, user_lower) THEN "mobile_app"
        ELSE IF AnyIn(type_keywords.ecommerce, user_lower) THEN "ecommerce"
        ELSE IF AnyIn(type_keywords.web, user_lower) THEN "web_platform"
        ELSE IF AnyIn(type_keywords.ai, user_lower) THEN "ai_ml"
        ELSE "general_software"

_detect_project_type(user_input) ==
    LET user_lower == Lower(user_input)
    IN  IF AnyIn(type_keywords.iot, user_lower) THEN "iot_hardware"
        ELSE IF AnyIn(type_keywords.mobile, user_lower) THEN "mobile_app"
        ELSE IF AnyIn(type_keywords.web, user_lower) THEN "web_platform"
        ELSE IF AnyIn(type_keywords.ai, user_lower) THEN "ai_ml"
        ELSE IF AnyIn(type_keywords.ecommerce, user_lower) THEN "ecommerce"
        ELSE "general_software"

----------------------------------------------------------------------------
(* More of Python's str: strip, split, join *)

\* the characters str.strip() removes
IsSpace(c) == c \in {" ", "\n", "\t", "\r"}

\* s.strip()
Strip(s) ==
    Only({LET keep == {i \in 1..Len(v) : ~IsSpace(v[i])}
          IN  IF keep = {} THEN <<>>
              ELSE SubSeq(v, CHOOSE i \in keep : \A j \in 1..(i - 1) : IsSpace(v[j]),
                             CHOOSE i \in keep : \A j \in (i + 1)..Len(v) : IsSpace(v[j]))
          : v \in {s}})

\* the positions lo..hi at which sep occurs in s, in increasing order
RECURSIVE Occurrences(_, _, _, _)
Occurrences(s, sep, lo, hi) ==
    IF lo > hi THEN <<>>
    ELSE IF lo = hi
         THEN (IF SubSeq(s, lo, lo + Len(sep) - 1) = sep THEN <<lo>> ELSE <<>>)
    ELSE LET mid == (lo + hi) \div 2
         IN  Occurrences(s, sep, lo, mid) \o Occurrences(s, sep, mid + 1, hi)

\* s.split(sep) for a separator that cannot overlap itself ('\n', '. ')
Split(s, sep) ==
    Only({Only({[k \in 1..(Len(P) + 1) |->
                    SubSeq(v, IF k = 1 THEN 1 ELSE P[k - 1] + Len(sep),
                              IF k = Len(P) + 1 THEN Len(v) ELSE P[k] - 1)]
                : P \in {Occurrences(v, sep, 1, Len(v) - Len(sep) + 1)}})
          : v \in {s}})

\* sep.join(parts[lo..hi])
RECURSIVE JoinRange(_, _, _, _)
JoinRange(parts, sep, lo, hi) ==
    IF lo > hi THEN <<>>
    ELSE IF lo = hi THEN parts[lo]
    ELSE LET mid == (lo + hi) \div 2
         IN  JoinRange(parts, sep, lo, mid) \o sep \o JoinRange(parts, sep, mid + 1, hi)

\* sep.join(parts)
Join(parts, sep) == Only({JoinRange(v, sep, 1, Len(v)) : v \in {Computed(parts)}})


----------------------------------------------------------------------------
(* Text Preprocessor: class TextProcessor *)

chunk_size == 3000
overlap_size == 200
\* "within the last 200 characters" of chunk_text
Lookback == 200
\* the direct/chunked threshold of prepare_input
TokenThreshold == 2000

\* count_tokens: len(self.encoding.encode(text)).  The tokenizer is a library;
\* an encoding is modelled by the number of characters it packs in a token.
count_tokens(encoding, text) == (Len(text) + encoding - 1) \div encoding

\* the end of the window that starts at `start` (0-based offsets), after the
\* search for a break
WindowEnd(text, start) ==
    LET end == start + chunk_size
        search_start == Max(end - Lookback, start)
        \* range(end, search_start, -1) with text[i] in ['.', '!', '?', '\n\n']:
        \* text[i] is one character, position i + 1 of the sequence
        found == {i \in (search_start + 1)..end : text[i + 1] \in {".", "!", "?"}}
    IN  IF end < Len(text) /\ found # {}
        THEN (CHOOSE i \in found : \A j \in found : j <= i) + 1
        ELSE end

\* the while loop of chunk_text, from window start `start` with `chunks` so far
RECURSIVE ChunkLoop(_, _, _)
ChunkLoop(text, start, chunks) ==
    IF ~(start < Len(text)) THEN chunks
    ELSE LET end == WindowEnd(text, start)
             chunk == Strip(Slice(text, start, end))
             chunks2 == IF chunk # <<>> THEN Append(chunks, chunk) ELSE chunks
             start2 == end - overlap_size
         IN  IF start2 >= Len(text) THEN chunks2 ELSE ChunkLoop(text, start2, chunks2)

\* variant: a short text goes through the loop as well, which strips it
\* (C26 fails under it)
chunk_text_always_loop(text) == ChunkLoop(text, 0, <<>>)

chunk_text(text) ==
    IF Len(text) <= chunk_size THEN <<text>> ELSE ChunkLoop(text, 0, <<>>)

RECURSIVE WindowLoop(_, _, _)
\* variant: the next window starts overlap_size after the end of the previous
\* one (C21 fails under it)
WindowLoop_gap(text, start, seen) ==
    IF ~(start < Len(text)) THEN seen
    ELSE LET end == WindowEnd(text, start)
             seen2 == Append(seen, [start |-> start, end |-> end])
             start2 == end + overlap_size
         IN  IF start2 >= Len(text) THEN seen2 ELSE WindowLoop(text, start2, seen2)

\* the same loop, keeping the window text[start:end] of each pass instead of
\* its chunk
WindowLoop(text, start, seen) ==
    IF ~(start < Len(text)) THEN seen
    ELSE LET end == WindowEnd(text, start)
             seen2 == Append(seen, [start |-> start, end |-> end])
             start2 == end - overlap_size
         IN  IF start2 >= Len(text) THEN seen2 ELSE WindowLoop(text, start2, seen2)

\* the windows of chunk_text: the whole text when it is returned as it is
chunk_windows(text) ==
    IF Len(text) <= chunk_size THEN <<[start |-> 0, end |-> Len(text)]>>
    ELSE WindowLoop(text, 0, <<>>)

\* the test of summarize_chunks for a key line (the line is already stripped)
IsKeyLine(line) ==
    /\ line # <<>>
    /\ \/ StartsWith(line, <<"-"," ">>)
       \/ StartsWith(line, <<"*"," ">>)
       \/ StartsWith(line, <<"1",".">>)
       \/ StartsWith(line, <<"2",".">>)
       \/ StartsWith(line, <<"3",".">>)
       \/ Len(line) < 100

\* the key lines among lines[lo..hi], in order
RECURSIVE KeyLinesRange(_, _, _)
KeyLinesRange(lines, lo, hi) ==
    IF lo > hi THEN <<>>
    ELSE IF lo = hi THEN (IF IsKeyLine(lines[lo]) THEN <<lines[lo]>> ELSE <<>>)
    ELSE LET mid == (lo + hi) \div 2
         IN  KeyLinesRange(lines, lo, mid) \o KeyLinesRange(lines, mid + 1, hi)

\* f"Section {i+1}:\n"
SectionLabel(n) == <<"S","e","c","t","i","o","n"," ">> \o Str(n) \o <<":","\n">>

\* the summary part of chunk number n (1-based)
SummaryPart(chunk, n) ==
    LET lines == Split(chunk, <<"\n">>)
        stripped == [k \in 1..Len(lines) |-> Strip(lines[k])]
        key_lines == KeyLinesRange(stripped, 1, Len(stripped))
        sentences == Split(chunk, <<"."," ">>)
    IN  IF key_lines # <<>>
        THEN SectionLabel(n) \o Join(SubSeq(key_lines, 1, Min(5, Len(key_lines))), <<"\n">>)
        ELSE SectionLabel(n)
               \o Join(SubSeq(sentences, 1, Min(3, Len(sentences))), <<"."," ">>) \o <<".">>

summarize_chunks(chunks) ==
    IF Len(chunks) <= 1 THEN (IF chunks # <<>> THEN chunks[1] ELSE <<>>)
    ELSE Join([n \in 1..Len(chunks) |-> SummaryPart(chunks[n], n)], <<"\n","\n">>)

\* variant: a text of exactly 2000 tokens is chunked (C20 fails under it)
prepare_input_below(encoding, user_input) ==
    LET token_count == count_tokens(encoding, user_input)
        chunks == chunk_text(user_input)
    IN  IF token_count < TokenThreshold
        THEN [type |-> "direct", content |-> user_input, token_count |-> token_count]
        ELSE [type |-> "chunked", original_content |-> user_input, chunks |-> chunks,
              summary |-> summarize_chunks(chunks), token_count |-> token_count,
              chunk_count |-> Len(chunks)]

prepare_input(encoding, user_input) ==
    LET token_count == count_tokens(encoding, user_input)
        chunks == chunk_text(user_input)
    IN  IF token_count <= TokenThreshold
        THEN [type |-> "direct", content |-> user_input, token_count |-> token_count]
        ELSE [type |-> "chunked", original_content |-> user_input, chunks |-> chunks,
              summary |-> summarize_chunks(chunks), token_count |-> token_count,
              chunk_count |-> Len(chunks)]

process_input(encoding, user_input) ==
    LET result == prepare_input(encoding, user_input)
    IN  IF result.type = "direct"
        THEN [processing_type |-> "direct", content |-> result.content,
              token_count |-> result.token_count]
        ELSE [processing_type |-> "chunked", content |-> result.summary,
              chunks |-> result.chunks, token_count |-> result.token_count,
              chunk_count |-> result.chunk_count]

----------------------------------------------------------------------------
(* Literals of the source *)

\* 'Multi-agent refinement failed: '
Err_refinement_failed ==
    <<"M","u","l","t","i","-","a","g","e","n","t"," ","r","e","f","i","n","e","m","e","n","t"," ",
      "f","a","i","l","e","d",":"," ">>

\* 'Multi-agent complex analysis failed: '
Err_complex_failed ==
    <<"M","u","l","t","i","-","a","g","e","n","t"," ","c","o","m","p","l","e","x"," ","a","n","a",
      "l","y","s","i","s"," ","f","a","i","l","e","d",":"," ">>

\* 'IoT/hardware analysis failed: '
Err_iot_failed ==
    <<"I","o","T","/","h","a","r","d","w","a","r","e"," ","a","n","a","l","y","s","i","s"," ","f",
      "a","i","l","e","d",":"," ">>

\* 'Error processing project: '
Err_processing ==
    <<"E","r","r","o","r"," ","p","r","o","c","e","s","s","i","n","g"," ","p","r","o","j","e","c",
      "t",":"," ">>

\* "object of type 'NoneType' has no len()"
TypeError_len ==
    <<"o","b","j","e","c","t"," ","o","f"," ","t","y","p","e"," ","'","N","o","n","e","T","y","p",
      "e","'"," ","h","a","s"," ","n","o"," ","l","e","n","(",")">>

\* 'sequence item '
TypeError_join_a ==
    <<"s","e","q","u","e","n","c","e"," ","i","t","e","m"," ">>

\* ': expected str instance, NoneType found'
TypeError_join_b ==
    <<":"," ","e","x","p","e","c","t","e","d"," ","s","t","r"," ","i","n","s","t","a","n","c","e",
      ","," ","N","o","n","e","T","y","p","e"," ","f","o","u","n","d">>

\* "{'error': "
ReprErrHead ==
    <<"{","'","e","r","r","o","r","'",":"," ">>

\* '}'
ReprErrTail ==
    <<"}">>

\* 'Project Requirements Summary:\n'
SummaryIntro ==
    <<"P","r","o","j","e","c","t"," ","R","e","q","u","i","r","e","m","e","n","t","s"," ","S","u",
      "m","m","a","r","y",":","\n">>

\* '\n\nNote: This is a summary of a larger document with '
SummaryNote_a ==
    <<"\n","\n","N","o","t","e",":"," ","T","h","i","s"," ","i","s"," ","a"," ","s","u","m","m",
      "a","r","y"," ","o","f"," ","a"," ","l","a","r","g","e","r"," ","d","o","c","u","m","e","n",
      "t"," ","w","i","t","h"," ">>

\* ' sections totaling '
SummaryNote_b ==
    <<" ","s","e","c","t","i","o","n","s"," ","t","o","t","a","l","i","n","g"," ">>

\* ' tokens.'
SummaryNote_c ==
    <<" ","t","o","k","e","n","s",".">>

\* '...'
Ellipsis3 ==
    <<".",".",".">>
\* the text each agent puts before str(e) when its LLM call raises
StageErrorPrefix(stage) ==
    CASE stage = "strategist_initial" ->  \* 'Strategist Agent error: '
        <<"S","t","r","a","t","e","g","i","s","t"," ","A","g","e","n","t"," ","e","r","r","o","r",
          ":"," ">>
      [] stage = "refiner_feedback_1" ->  \* 'Refiner Agent error: '
        <<"R","e","f","i","n","e","r"," ","A","g","e","n","t"," ","e","r","r","o","r",":"," ">>
      [] stage = "strategist_refined" ->  \* 'Strategist Agent refinement error: '
        <<"S","t","r","a","t","e","g","i","s","t"," ","A","g","e","n","t"," ","r","e","f","i","n",
          "e","m","e","n","t"," ","e","r","r","o","r",":"," ">>
      [] stage = "refiner_final" ->  \* 'Refiner Agent final evaluation error: '
        <<"R","e","f","i","n","e","r"," ","A","g","e","n","t"," ","f","i","n","a","l"," ","e","v",
          "a","l","u","a","t","i","o","n"," ","e","r","r","o","r",":"," ">>
      [] stage = "market_research" ->  \* 'Market Research Agent error: '
        <<"M","a","r","k","e","t"," ","R","e","s","e","a","r","c","h"," ","A","g","e","n","t"," ",
          "e","r","r","o","r",":"," ">>
      [] stage = "technical_architect" ->  \* 'Technical Architect Agent error: '
        <<"T","e","c","h","n","i","c","a","l"," ","A","r","c","h","i","t","e","c","t"," ","A","g",
          "e","n","t"," ","e","r","r","o","r",":"," ">>
      [] stage = "ai_specialist" ->  \* 'AI Specialist Agent error: '
        <<"A","I"," ","S","p","e","c","i","a","l","i","s","t"," ","A","g","e","n","t"," ","e","r",
          "r","o","r",":"," ">>
      [] stage = "business_strategy" ->  \* 'Business Strategy Agent error: '
        <<"B","u","s","i","n","e","s","s"," ","S","t","r","a","t","e","g","y"," ","A","g","e","n",
          "t"," ","e","r","r","o","r",":"," ">>
      [] stage = "implementation" ->  \* 'Implementation analysis failed: '
        <<"I","m","p","l","e","m","e","n","t","a","t","i","o","n"," ","a","n","a","l","y","s","i",
          "s"," ","f","a","i","l","e","d",":"," ">>
      [] stage = "hardware_specialist" ->  \* 'Hardware analysis failed: '
        <<"H","a","r","d","w","a","r","e"," ","a","n","a","l","y","s","i","s"," ","f","a","i","l",
          "e","d",":"," ">>
      [] stage = "component_researcher" ->  \* 'Component research failed: '
        <<"C","o","m","p","o","n","e","n","t"," ","r","e","s","e","a","r","c","h"," ","f","a","i",
          "l","e","d",":"," ">>
      [] stage = "iot_technical_architect" ->  \* 'Architecture design failed: '
        <<"A","r","c","h","i","t","e","c","t","u","r","e"," ","d","e","s","i","g","n"," ","f","a",
          "i","l","e","d",":"," ">>
      [] stage = "implementation_planner" ->  \* 'Implementation planning failed: '
        <<"I","m","p","l","e","m","e","n","t","a","t","i","o","n"," ","p","l","a","n","n","i","n",
          "g"," ","f","a","i","l","e","d",":"," ">>

\* str(result) of a successful result, up to the content's repr
ReprHead(agent) ==
    CASE agent = "market_research" ->  \* "{'analysis': "
        <<"{","'","a","n","a","l","y","s","i","s","'",":"," ">>
      [] agent = "technical_architect" ->  \* "{'architecture': "
        <<"{","'","a","r","c","h","i","t","e","c","t","u","r","e","'",":"," ">>
      [] agent = "ai_specialist" ->  \* "{'ai_design': "
        <<"{","'","a","i","_","d","e","s","i","g","n","'",":"," ">>
      [] agent = "business_strategy" ->  \* "{'strategy': "
        <<"{","'","s","t","r","a","t","e","g","y","'",":"," ">>
      [] agent = "implementation" ->  \* "{'implementation_plan': "
        <<"{","'","i","m","p","l","e","m","e","n","t","a","t","i","o","n","_","p","l","a","n","'",
          ":"," ">>

\* str(result) of a successful result, after the content's repr
ReprTail(agent) ==
    CASE agent = "market_research" ->  \* ", 'agent_type': 'market_research', 'confidence': 0.85}"
        <<","," ","'","a","g","e","n","t","_","t","y","p","e","'",":"," ","'","m","a","r","k","e",
          "t","_","r","e","s","e","a","r","c","h","'",","," ","'","c","o","n","f","i","d","e","n",
          "c","e","'",":"," ","0",".","8","5","}">>
      [] agent = "technical_architect" ->  \* ", 'agent_type': 'technical_architect', 'confidence': 0.9}"
        <<","," ","'","a","g","e","n","t","_","t","y","p","e","'",":"," ","'","t","e","c","h","n",
          "i","c","a","l","_","a","r","c","h","i","t","e","c","t","'",","," ","'","c","o","n","f",
          "i","d","e","n","c","e","'",":"," ","0",".","9","}">>
      [] agent = "ai_specialist" ->  \* ", 'agent_type': 'ai_specialist', 'confidence': 0.88}"
        <<","," ","'","a","g","e","n","t","_","t","y","p","e","'",":"," ","'","a","i","_","s","p",
          "e","c","i","a","l","i","s","t","'",","," ","'","c","o","n","f","i","d","e","n","c","e",
          "'",":"," ","0",".","8","8","}">>
      [] agent = "business_strategy" ->  \* ", 'agent_type': 'business_strategy', 'confidence': 0.87}"
        <<","," ","'","a","g","e","n","t","_","t","y","p","e","'",":"," ","'","b","u","s","i","n",
          "e","s","s","_","s","t","r","a","t","e","g","y","'",","," ","'","c","o","n","f","i","d",
          "e","n","c","e","'",":"," ","0",".","8","7","}">>
      [] agent = "implementation" ->  \* ", 'agent_type': 'implementation', 'confidence': 0.92}"
        <<","," ","'","a","g","e","n","t","_","t","y","p","e","'",":"," ","'","i","m","p","l","e",
          "m","e","n","t","a","t","i","o","n","'",","," ","'","c","o","n","f","i","d","e","n","c",
          "e","'",":"," ","0",".","9","2","}">>

\* the heading line of each section of _synthesize_comprehensive_roadmap
ComplexHeading(stage) ==
    CASE stage = "market_research" ->  \* '##  Market Opportunity Analysis'
        <<"#","#"," "," ","M","a","r","k","e","t"," ","O","p","p","o","r","t","u","n","i","t","y",
          " ","A","n","a","l","y","s","i","s">>
      [] stage = "technical_architect" ->  \* '##  Technical Architecture & System Design'
        <<"#","#"," "," ","T","e","c","h","n","i","c","a","l"," ","A","r","c","h","i","t","e","c",
          "t","u","r","e"," ","&"," ","S","y","s","t","e","m"," ","D","e","s","i","g","n">>
      [] stage = "ai_specialist" ->  \* '##  AI/ML Models & Algorithms'
        <<"#","#"," "," ","A","I","/","M","L"," ","M","o","d","e","l","s"," ","&"," ","A","l","g",
          "o","r","i","t","h","m","s">>
      [] stage = "business_strategy" ->  \* '##  Business Strategy & Monetization'
        <<"#","#"," "," ","B","u","s","i","n","e","s","s"," ","S","t","r","a","t","e","g","y"," ",
          "&"," ","M","o","n","e","t","i","z","a","t","i","o","n">>
      [] stage = "implementation" ->  \* '##  Implementation Plan & Execution'
        <<"#","#"," "," ","I","m","p","l","e","m","e","n","t","a","t","i","o","n"," ","P","l","a",
          "n"," ","&"," ","E","x","e","c","u","t","i","o","n">>

\* the heading line of each section of _synthesize_iot_roadmap
IoTHeading(stage) ==
    CASE stage = "hardware_specialist" ->  \* '##  Hardware Requirements & System Design'
        <<"#","#"," "," ","H","a","r","d","w","a","r","e"," ","R","e","q","u","i","r","e","m","e",
          "n","t","s"," ","&"," ","S","y","s","t","e","m"," ","D","e","s","i","g","n">>
      [] stage = "component_researcher" ->  \* '##  Component List & Pricing'
        <<"#","#"," "," ","C","o","m","p","o","n","e","n","t"," ","L","i","s","t"," ","&"," ","P",
          "r","i","c","i","n","g">>
      [] stage = "iot_technical_architect" ->  \* '##  Technical Architecture & Wiring'
        <<"#","#"," "," ","T","e","c","h","n","i","c","a","l"," ","A","r","c","h","i","t","e","c",
          "t","u","r","e"," ","&"," ","W","i","r","i","n","g">>
      [] stage = "implementation_planner" ->  \* '##  Implementation Guide & Setup'
        <<"#","#"," "," ","I","m","p","l","e","m","e","n","t","a","t","i","o","n"," ","G","u","i",
          "d","e"," ","&"," ","S","e","t","u","p">>
\* the lines appended before the sections (multi_agent_coordinator.py lines 113-119)
ComplexHeader ==
  << <<"#"," "," ","A","I"," ","M","a","r","k","e","t"," ","R","e","s","e","a","r","c","h"," ",
       "S","y","s","t","e","m",":"," ","C","o","m","p","r","e","h","e","n","s","i","v","e"," ",
       "P","r","o","j","e","c","t"," ","R","o","a","d","m","a","p">>,
     <<>>,
     <<"#","#"," "," ","E","x","e","c","u","t","i","v","e"," ","S","u","m","m","a","r","y">>,
     <<"T","h","i","s"," ","r","o","a","d","m","a","p"," ","p","r","e","s","e","n","t","s"," ",
       "a"," ","*","*","c","o","m","p","r","e","h","e","n","s","i","v","e"," ","p","l","a","n",
       "*","*"," ","f","o","r"," ","d","e","v","e","l","o","p","i","n","g"," ","a","n"," ","a",
       "d","v","a","n","c","e","d"," ","A","I","-","p","o","w","e","r","e","d"," ","m","a","r",
       "k","e","t"," ","r","e","s","e","a","r","c","h"," ","s","y","s","t","e","m"," ","w","i",
       "t","h"," ","s","p","e","c","i","a","l","i","z","e","d"," ","m","u","l","t","i","-","a",
       "g","e","n","t"," ","a","r","c","h","i","t","e","c","t","u","r","e"," ","f","o","r"," ",
       "i","d","e","n","t","i","f","y","i","n","g"," ","u","n","t","a","p","p","e","d"," ","m",
       "a","r","k","e","t"," ","o","p","p","o","r","t","u","n","i","t","i","e","s"," ","a","n",
       "d"," ","g","e","n","e","r","a","t","i","n","g"," ","p","r","o","f","i","t","a","b","l",
       "e"," ","b","u","s","i","n","e","s","s"," ","i","d","e","a","s",".">>,
     <<>>,
     <<"-","-","-">>,
     <<>> >>

\* the lines appended after the sections (multi_agent_coordinator.py lines 189-236)
ComplexClosing ==
  << <<"#","#"," "," ","M","u","l","t","i","-","A","g","e","n","t"," ","S","y","s","t","e","m",
       " ","A","r","c","h","i","t","e","c","t","u","r","e"," ","S","u","m","m","a","r","y">>,
     <<>>,
     <<"#","#","#"," "," ","*","*","S","p","e","c","i","a","l","i","z","e","d"," ","A","g","e",
       "n","t"," ","R","o","l","e","s",":","*","*">>,
     <<>>,
     <<"|"," ","A","g","e","n","t"," ","|"," ","P","r","i","m","a","r","y"," ","F","u","n","c",
       "t","i","o","n"," ","|"," ","K","e","y"," ","C","a","p","a","b","i","l","i","t","i","e",
       "s"," ","|">>,
     <<"|","-","-","-","-","-","-","-","|","-","-","-","-","-","-","-","-","-","-","-","-","-",
       "-","-","-","-","-","|","-","-","-","-","-","-","-","-","-","-","-","-","-","-","-","-",
       "-","-","|">>,
     <<"|"," "," ","*","*","M","a","r","k","e","t"," ","R","e","s","e","a","r","c","h"," ","A",
       "g","e","n","t","*","*"," ","|"," ","M","a","r","k","e","t"," ","I","n","t","e","l","l",
       "i","g","e","n","c","e"," ","|"," ","S","c","a","n","s"," ","g","l","o","b","a","l"," ",
       "m","a","r","k","e","t","s",","," ","i","d","e","n","t","i","f","i","e","s"," ","t","r",
       "e","n","d","s",","," ","a","n","a","l","y","z","e","s"," ","g","a","p","s"," ","|">>,
     <<"|"," "," ","*","*","T","e","c","h","n","i","c","a","l"," ","A","r","c","h","i","t","e",
       "c","t"," ","A","g","e","n","t","*","*"," ","|"," ","S","y","s","t","e","m"," ","D","e",
       "s","i","g","n"," ","|"," ","D","e","s","i","g","n","s"," ","s","c","a","l","a","b","l",
       "e"," ","a","r","c","h","i","t","e","c","t","u","r","e"," ","a","n","d"," ","i","n","f",
       "r","a","s","t","r","u","c","t","u","r","e"," ","|">>,
     <<"|"," "," ","*","*","A","I"," ","S","p","e","c","i","a","l","i","s","t"," ","A","g","e",
       "n","t","*","*"," ","|"," ","M","L","/","A","I"," ","D","e","v","e","l","o","p","m","e",
       "n","t"," ","|"," ","D","e","v","e","l","o","p","s"," ","a","n","d"," ","o","p","t","i",
       "m","i","z","e","s"," ","m","a","c","h","i","n","e"," ","l","e","a","r","n","i","n","g",
       " ","m","o","d","e","l","s"," ","|">>,
     <<"|"," "," ","*","*","B","u","s","i","n","e","s","s"," ","S","t","r","a","t","e","g","y",
       " ","A","g","e","n","t","*","*"," ","|"," ","S","t","r","a","t","e","g","i","c"," ","P",
       "l","a","n","n","i","n","g"," ","|"," ","C","r","e","a","t","e","s"," ","m","o","n","e",
       "t","i","z","a","t","i","o","n"," ","a","n","d"," ","g","o","-","t","o","-","m","a","r",
       "k","e","t"," ","s","t","r","a","t","e","g","i","e","s"," ","|">>,
     <<"|"," "," ","*","*","I","m","p","l","e","m","e","n","t","a","t","i","o","n"," ","A","g",
       "e","n","t","*","*"," ","|"," ","P","r","o","j","e","c","t"," ","E","x","e","c","u","t",
       "i","o","n"," ","|"," ","C","o","o","r","d","i","n","a","t","e","s"," ","d","e","v","e",
       "l","o","p","m","e","n","t",","," ","d","e","p","l","o","y","m","e","n","t",","," ","a",
       "n","d"," ","o","p","e","r","a","t","i","o","n","s"," ","|">>,
     <<>>,
     <<"#","#","#"," "," ","*","*","A","g","e","n","t"," ","C","o","o","r","d","i","n","a","t",
       "i","o","n"," ","W","o","r","k","f","l","o","w",":","*","*">>,
     <<>>,
     <<"m","e","r","m","a","i","d">>,
     <<"g","r","a","p","h"," ","T","D">>,
     <<" "," "," "," ","A","[","D","a","i","l","y"," ","M","a","r","k","e","t"," ","S","c","a",
       "n","n","i","n","g","]"," ","-","-",">"," ","B","[","D","a","t","a"," ","A","n","a","l",
       "y","s","i","s"," ","&"," ","P","r","o","c","e","s","s","i","n","g","]">>,
     <<" "," "," "," ","B"," ","-","-",">"," ","C","[","O","p","p","o","r","t","u","n","i","t",
       "y"," ","I","d","e","n","t","i","f","i","c","a","t","i","o","n","]">>,
     <<" "," "," "," ","C"," ","-","-",">"," ","D","[","F","e","a","s","i","b","i","l","i","t",
       "y"," ","A","s","s","e","s","s","m","e","n","t","]">>,
     <<" "," "," "," ","D"," ","-","-",">"," ","E","[","B","u","s","i","n","e","s","s"," ","V",
       "a","l","i","d","a","t","i","o","n","]">>,
     <<" "," "," "," ","E"," ","-","-",">"," ","F","[","I","d","e","a"," ","G","e","n","e","r",
       "a","t","i","o","n"," ","&"," ","R","a","n","k","i","n","g","]">>,
     <<" "," "," "," ","F"," ","-","-",">"," ","G","[","I","m","p","l","e","m","e","n","t","a",
       "t","i","o","n"," ","P","l","a","n","n","i","n","g","]">>,
     <<" "," "," "," ","G"," ","-","-",">"," ","H","[","C","o","n","t","i","n","u","o","u","s",
       " ","L","e","a","r","n","i","n","g"," ","L","o","o","p","]">>,
     <<" "," "," "," ","H"," ","-","-",">"," ","A">>,
     <<>>,
     <<>>,
     <<"#","#","#"," "," ","*","*","S","u","c","c","e","s","s"," ","M","e","t","r","i","c","s",
       " ","&"," ","K","P","I","s",":","*","*">>,
     <<>>,
     <<"|"," ","M","e","t","r","i","c"," ","C","a","t","e","g","o","r","y"," ","|"," ","K","e",
       "y"," ","I","n","d","i","c","a","t","o","r","s"," ","|"," ","T","a","r","g","e","t"," ",
       "P","e","r","f","o","r","m","a","n","c","e"," ","|">>,
     <<"|","-","-","-","-","-","-","-","-","-","-","-","-","-","-","-","-","-","|","-","-","-",
       "-","-","-","-","-","-","-","-","-","-","-","-","-","|","-","-","-","-","-","-","-","-",
       "-","-","-","-","-","-","-","-","-","-","-","|">>,
     <<"|"," "," ","*","*","I","d","e","a"," ","Q","u","a","l","i","t","y","*","*"," ","|"," ",
       "M","a","r","k","e","t"," ","p","o","t","e","n","t","i","a","l",","," ","u","n","i","q",
       "u","e","n","e","s","s",","," ","f","e","a","s","i","b","i","l","i","t","y"," ","s","c",
       "o","r","e","s"," ","|"," ","8",".","5","+"," ","o","u","t"," ","o","f"," ","1","0"," ","|">>,
     <<"|"," "," ","*","*","I","m","p","l","e","m","e","n","t","a","t","i","o","n"," ","S","u",
       "c","c","e","s","s","*","*"," ","|"," ","C","o","n","v","e","r","s","i","o","n"," ","r",
       "a","t","e"," ","f","r","o","m"," ","i","d","e","a"," ","t","o"," ","p","r","o","f","i",
       "t","a","b","l","e"," ","p","r","o","d","u","c","t"," ","|"," ","6","0","%","+"," ","s",
       "u","c","c","e","s","s"," ","r","a","t","e"," ","|">>,
     <<"|"," "," ","*","*","M","a","r","k","e","t"," ","A","c","c","u","r","a","c","y","*","*",
       " ","|"," ","P","r","e","d","i","c","t","i","o","n"," ","a","c","c","u","r","a","c","y",
       " ","f","o","r"," ","t","r","e","n","d","s"," ","a","n","d"," ","o","p","p","o","r","t",
       "u","n","i","t","i","e","s"," ","|"," ","8","5","%","+"," ","a","c","c","u","r","a","c",
       "y"," ","|">>,
     <<"|"," "," ","*","*","R","e","v","e","n","u","e"," ","G","e","n","e","r","a","t","i","o",
       "n","*","*"," ","|"," ","R","O","I"," ","f","r","o","m"," ","i","m","p","l","e","m","e",
       "n","t","e","d"," ","i","d","e","a","s"," ","a","n","d"," ","p","r","o","d","u","c","t",
       "s"," ","|"," ","$","1","0","M","+"," ","A","R","R"," ","t","a","r","g","e","t"," ","|">>,
     <<>>,
     <<"-","-","-">>,
     <<>>,
     <<"#","#"," "," ","*","*","P","r","o","j","e","c","t"," ","C","o","m","p","l","e","t","i",
       "o","n"," ","S","u","m","m","a","r","y","*","*">>,
     <<>>,
     <<"T","h","i","s"," ","c","o","m","p","r","e","h","e","n","s","i","v","e"," ","r","o","a",
       "d","m","a","p"," ","p","r","o","v","i","d","e","s"," ","a"," ","*","*","c","o","m","p",
       "l","e","t","e"," ","b","l","u","e","p","r","i","n","t","*","*"," ","f","o","r"," ","b",
       "u","i","l","d","i","n","g"," ","a"," ","s","o","p","h","i","s","t","i","c","a","t","e",
       "d"," ","A","I","-","d","r","i","v","e","n"," ","m","a","r","k","e","t"," ","r","e","s",
       "e","a","r","c","h"," ","a","n","d"," ","o","p","p","o","r","t","u","n","i","t","y"," ",
       "i","d","e","n","t","i","f","i","c","a","t","i","o","n"," ","s","y","s","t","e","m",".",
       " ","T","h","e"," ","m","u","l","t","i","-","a","g","e","n","t"," ","a","r","c","h","i",
       "t","e","c","t","u","r","e"," ","e","n","s","u","r","e","s",":">>,
     <<>>,
     <<" ","*","*","C","o","m","p","r","e","h","e","n","s","i","v","e"," ","A","n","a","l","y",
       "s","i","s","*","*"," ","a","c","r","o","s","s"," ","a","l","l"," ","b","u","s","i","n",
       "e","s","s"," ","d","o","m","a","i","n","s">>,
     <<" ","*","*","S","c","a","l","a","b","l","e"," ","A","r","c","h","i","t","e","c","t","u",
       "r","e","*","*"," ","f","o","r"," ","e","n","t","e","r","p","r","i","s","e","-","g","r",
       "a","d","e"," ","d","e","p","l","o","y","m","e","n","t">>,
     <<" ","*","*","A","d","v","a","n","c","e","d"," ","A","I","/","M","L"," ","M","o","d","e",
       "l","s","*","*"," ","f","o","r"," ","a","c","c","u","r","a","t","e"," ","p","r","e","d",
       "i","c","t","i","o","n","s">>,
     <<" ","*","*","P","r","o","f","i","t","a","b","l","e"," ","B","u","s","i","n","e","s","s",
       " ","M","o","d","e","l","*","*"," ","w","i","t","h"," ","m","u","l","t","i","p","l","e",
       " ","r","e","v","e","n","u","e"," ","s","t","r","e","a","m","s">>,
     <<" ","*","*","C","l","e","a","r"," ","I","m","p","l","e","m","e","n","t","a","t","i","o",
       "n"," ","P","a","t","h","*","*"," ","w","i","t","h"," ","d","e","f","i","n","e","d"," ",
       "m","i","l","e","s","t","o","n","e","s">>,
     <<>>,
     <<"*","*","R","e","a","d","y"," ","f","o","r"," ","i","m","p","l","e","m","e","n","t","a",
       "t","i","o","n"," ","w","i","t","h"," ","h","i","g","h"," ","p","o","t","e","n","t","i",
       "a","l"," ","f","o","r"," ","m","a","r","k","e","t"," ","s","u","c","c","e","s","s","!",
       "*","*"," ">> >>

\* the lines appended before the sections (specialized_agents.py lines 396-402)
IoTHeader ==
  << <<"#"," "," ","I","o","T"," ","S","m","a","r","t"," ","S","y","s","t","e","m",":"," ","C",
       "o","m","p","l","e","t","e"," ","I","m","p","l","e","m","e","n","t","a","t","i","o","n",
       " ","G","u","i","d","e">>,
     <<>>,
     <<"#","#"," "," ","E","x","e","c","u","t","i","v","e"," ","S","u","m","m","a","r","y">>,
     <<"T","h","i","s"," ","c","o","m","p","r","e","h","e","n","s","i","v","e"," ","g","u","i",
       "d","e"," ","p","r","o","v","i","d","e","s"," ","e","v","e","r","y","t","h","i","n","g",
       " ","n","e","e","d","e","d"," ","t","o"," ","b","u","i","l","d"," ","a"," ","p","r","o",
       "f","e","s","s","i","o","n","a","l"," ","I","o","T"," ","s","y","s","t","e","m"," ","w",
       "i","t","h"," ","d","e","t","a","i","l","e","d"," ","c","o","m","p","o","n","e","n","t",
       " ","s","p","e","c","i","f","i","c","a","t","i","o","n","s",","," ","p","r","i","c","i",
       "n","g",","," ","w","i","r","i","n","g"," ","d","i","a","g","r","a","m","s",","," ","a",
       "n","d"," ","s","t","e","p","-","b","y","-","s","t","e","p"," ","i","m","p","l","e","m",
       "e","n","t","a","t","i","o","n"," ","i","n","s","t","r","u","c","t","i","o","n","s",".">>,
     <<>>,
     <<"-","-","-">>,
     <<>> >>

\* the lines appended after the sections (specialized_agents.py lines 449-458)
IoTClosing ==
  << <<"#","#"," "," ","*","*","P","r","o","j","e","c","t"," ","C","o","m","p","l","e","t","i",
       "o","n"," ","C","h","e","c","k","l","i","s","t","*","*">>,
     <<>>,
     <<" ","*","*","H","a","r","d","w","a","r","e"," ","C","o","m","p","o","n","e","n","t","s",
       "*","*"," ","-"," ","A","l","l"," ","p","a","r","t","s"," ","s","p","e","c","i","f","i",
       "e","d"," ","w","i","t","h"," ","s","u","p","p","l","i","e","r","s">>,
     <<" ","*","*","W","i","r","i","n","g"," ","D","i","a","g","r","a","m","s","*","*"," ","-",
       " ","C","o","m","p","l","e","t","e"," ","c","o","n","n","e","c","t","i","o","n"," ","s",
       "c","h","e","m","a","t","i","c","s">>,
     <<" ","*","*","S","o","f","t","w","a","r","e"," ","C","o","d","e","*","*"," ","-"," ","R",
       "e","a","d","y","-","t","o","-","d","e","p","l","o","y"," ","f","i","r","m","w","a","r","e">>,
     <<" ","*","*","S","e","t","u","p"," ","I","n","s","t","r","u","c","t","i","o","n","s","*",
       "*"," ","-"," ","S","t","e","p","-","b","y","-","s","t","e","p"," ","a","s","s","e","m",
       "b","l","y"," ","g","u","i","d","e">>,
     <<" ","*","*","T","e","s","t","i","n","g"," ","P","r","o","c","e","d","u","r","e","s","*",
       "*"," ","-"," ","V","a","l","i","d","a","t","i","o","n"," ","a","n","d"," ","c","a","l",
       "i","b","r","a","t","i","o","n">>,
     <<" ","*","*","T","r","o","u","b","l","e","s","h","o","o","t","i","n","g","*","*"," ","-",
       " ","C","o","m","m","o","n"," ","i","s","s","u","e","s"," ","a","n","d"," ","s","o","l",
       "u","t","i","o","n","s">>,
     <<>>,
     <<"*","*","R","e","a","d","y"," ","f","o","r"," ","i","m","m","e","d","i","a","t","e"," ",
       "i","m","p","l","e","m","e","n","t","a","t","i","o","n","!","*","*"," ">> >>
----------------------------------------------------------------------------
(* Python dicts *)

EmptyDict == [k \in {} |-> None]

\* d[k] = v
Put(d, k, v) == [x \in (DOMAIN d) \cup {k} |-> IF x = k THEN v ELSE d[x]]

\* d.get(k, default)
Get(d, k, default) == IF k \in DOMAIN d THEN d[k] ELSE default

----------------------------------------------------------------------------
(* The LLM services.  A completion call either raises, or returns; what an  *)
(* OpenAI chat completion returns as message.content is a string or None,   *)
(* what Gemini returns as response.text is a string (it raises otherwise).  *)

\* the stages, each one LLM call
RefinementStages ==
    <<"strategist_initial", "refiner_feedback_1", "strategist_refined", "refiner_final">>
ComplexStages ==
    <<"market_research", "technical_architect", "ai_specialist", "business_strategy",
      "implementation">>
IoTStages ==
    <<"hardware_specialist", "component_researcher", "iot_technical_architect",
      "implementation_planner">>

Range(seq) == {seq[i] : i \in 1..Len(seq)}

\* the stages whose agent calls Gemini (genai.GenerativeModel.generate_content)
GeminiStages == {"refiner_feedback_1", "refiner_final", "ai_specialist", "implementation"}

\* str(e) of the exception of a failed completion call
ApiErrors == { <<"r","a","t","e"," ","l","i","m","i","t">> }

\* the text the model answers to the call of each stage
Reply(stage) ==
    CASE stage = "strategist_initial" ->  \* '# Draft\nPhases:\n- build'
        <<"#"," ","D","r","a","f","t","\n","P","h","a","s","e","s",":","\n","-"," ","b","u","i",
          "l","d">>
      [] stage = "refiner_feedback_1" ->  \* 'Risks: scope'
        <<"R","i","s","k","s",":"," ","s","c","o","p","e">>
      [] stage = "strategist_refined" ->  \* '# Draft v2\n- build\n- test'
        <<"#"," ","D","r","a","f","t"," ","v","2","\n","-"," ","b","u","i","l","d","\n","-"," ",
          "t","e","s","t">>
      [] stage = "refiner_final" ->  \* '# Roadmap\n1. build\n2. test'
        <<"#"," ","R","o","a","d","m","a","p","\n","1","."," ","b","u","i","l","d","\n","2",".",
          " ","t","e","s","t">>
      [] stage = "market_research" ->  \* '# Market\nGaps:\n- niche'
        <<"#"," ","M","a","r","k","e","t","\n","G","a","p","s",":","\n","-"," ","n","i","c","h",
          "e">>
      [] stage = "technical_architect" ->  \* '#### Stack\n* queue'
        <<"#","#","#","#"," ","S","t","a","c","k","\n","*"," ","q","u","e","u","e">>
      [] stage = "ai_specialist" ->  \* '## Models\nranker'
        <<"#","#"," ","M","o","d","e","l","s","\n","r","a","n","k","e","r">>
      [] stage = "business_strategy" ->  \* '### Pricing\n  Tiers:  '
        <<"#","#","#"," ","P","r","i","c","i","n","g","\n"," "," ","T","i","e","r","s",":"," "," ">>
      [] stage = "implementation" ->  \* 'Phase 1: team'
        <<"P","h","a","s","e"," ","1",":"," ","t","e","a","m">>
      [] stage = "hardware_specialist" ->  \* 'ESP32 board'
        <<"E","S","P","3","2"," ","b","o","a","r","d">>
      [] stage = "component_researcher" ->  \* 'pH probe: $30'
        <<"p","H"," ","p","r","o","b","e",":"," ","$","3","0">>
      [] stage = "iot_technical_architect" ->  \* 'GPIO34 -> pH'
        <<"G","P","I","O","3","4"," ","-",">"," ","p","H">>
      [] stage = "implementation_planner" ->  \* '1. solder'
        <<"1","."," ","s","o","l","d","e","r">>

\* what the call of a stage can do: return a text, return None, or raise
Outcomes(stage) ==
    {[kind |-> "text", content |-> Reply(stage)]}
      \cup (IF stage \in GeminiStages THEN {} ELSE {[kind |-> "text", content |-> None]})
      \cup {[kind |-> "raise", message |-> m] : m \in ApiErrors}

\* the outcome is a fault: the call did not return a text
IsFault(o) == o.kind = "raise" \/ o.content = None

----------------------------------------------------------------------------
(* The specialized agents (specialized_agents.py): each returns a dict      *)

\* the key under which each agent returns its text
ResultKey(stage) ==
    CASE stage = "market_research" -> "analysis"
      [] stage = "technical_architect" -> "architecture"
      [] stage = "ai_specialist" -> "ai_design"
      [] stage = "business_strategy" -> "strategy"
      [] stage = "implementation" -> "implementation_plan"
      [] stage = "hardware_specialist" -> "hardware_analysis"
      [] stage = "component_researcher" -> "component_analysis"
      [] stage = "iot_technical_architect" -> "architecture_design"
      [] stage = "implementation_planner" -> "implementation_guide"

\* the "agent_type" each agent reports
AgentType(stage) == IF stage = "iot_technical_architect" THEN "technical_architect" ELSE stage

\* the "confidence" each agent reports, in hundredths
Confidence(stage) ==
    CASE stage = "market_research" -> 85
      [] stage = "technical_architect" -> 90
      [] stage = "ai_specialist" -> 88
      [] stage = "business_strategy" -> 87
      [] stage = "implementation" -> 92
      [] stage = "hardware_specialist" -> 95
      [] stage = "component_researcher" -> 92
      [] stage = "iot_technical_architect" -> 94
      [] stage = "implementation_planner" -> 93

\* variant: a failed call yields a result with the error and an empty text
\* (C5 fails under it)
AgentResult_empty_text(stage, o) ==
    IF o.kind = "raise"
    THEN (ResultKey(stage) :> <<>>) @@ [error |-> StageErrorPrefix(stage) \o o.message]
    ELSE (ResultKey(stage) :> o.content)
           @@ [agent_type |-> AgentType(stage), confidence |-> Confidence(stage)]

\* the try/except of an agent method around its completion call
AgentResult(stage, o) ==
    IF o.kind = "raise"
    THEN [error |-> StageErrorPrefix(stage) \o o.message]
    ELSE (ResultKey(stage) :> o.content)
           @@ [agent_type |-> AgentType(stage), confidence |-> Confidence(stage)]

\* variant: the prompt shows the error of a stage that failed in the place of
\* its text (C32 fails under it)
implementation_inputs_with_error(all_analyses) ==
    LET of(agent, key) ==
            Get(Get(all_analyses, agent, EmptyDict), key,
                Get(Get(all_analyses, agent, EmptyDict), "error", <<>>))
    IN  [market_analysis |-> of("market_research", "analysis"),
         technical_architecture |-> of("technical_architect", "architecture"),
         ai_design |-> of("ai_specialist", "ai_design"),
         business_strategy |-> of("business_strategy", "strategy")]

\* what the prompt of ImplementationAgent.create_implementation_plan takes
\* from all_analyses: all_analyses.get(agent, {}).get(key, '') four times
implementation_inputs(all_analyses) ==
    LET of(agent, key) == Get(Get(all_analyses, agent, EmptyDict), key, <<>>)
    IN  [market_analysis |-> of("market_research", "analysis"),
         technical_architecture |-> of("technical_architect", "architecture"),
         ai_design |-> of("ai_specialist", "ai_design"),
         business_strategy |-> of("business_strategy", "strategy")]

----------------------------------------------------------------------------
(* Synthesis: MultiAgentCoordinator and IoTHardwareCoordinator             *)

\* the result of running a piece of code: it returned a value, or raised
Returned(v) == [returned |-> v]
Raised(msg) == [raised |-> msg]
HasRaised(r) == "raised" \in DOMAIN r

\* one line of _format_section_content, after line.strip()
FormatLine(stripped) ==
    LET h3 == <<"#","#","#"," ">>
    IN  Only({IF line = <<>> THEN <<>>
              ELSE IF StartsWith(line, <<"#","#","#","#">>)
                   THEN h3 \o Strip(Slice(line, 4, Len(line)))
              ELSE IF StartsWith(line, <<"#","#","#">>)
                   THEN h3 \o Strip(Slice(line, 3, Len(line)))
              ELSE IF StartsWith(line, <<"#","#">>) THEN h3 \o Strip(Slice(line, 2, Len(line)))
              ELSE IF StartsWith(line, <<"#">>) THEN h3 \o Strip(Slice(line, 1, Len(line)))
              ELSE IF StartsWith(line, <<"-"," ">>) \/ StartsWith(line, <<"*"," ">>) THEN line
              ELSE IF line[Len(line)] = ":" /\ Len(line) < 100
                   THEN <<"*","*">> \o line \o <<"*","*">>
              ELSE line
              : line \in {stripped}})

_format_section_content(content) ==
    IF content = None \/ content = <<>> THEN content
    ELSE Only({Join([k \in 1..Len(lines) |-> FormatLine(Strip(lines[k]))], <<"\n">>)
               : lines \in {Computed(Split(content, <<"\n">>))}})

\* the lines one section adds to roadmap_sections when its key is present
ComplexSection(stage, data) ==
    <<ComplexHeading(stage), <<>>, _format_section_content(data[ResultKey(stage)]),
      <<>>, <<"-","-","-">>, <<>>>>
      \o (IF stage = "business_strategy" THEN << <<>> >> ELSE <<>>)

IoTSection(stage, data) ==
    <<IoTHeading(stage), <<>>, data[ResultKey(stage)], <<>>, <<"-","-","-">>, <<>>>>

\* the key of analysis_results under which a stage's result is stored
ResultsKey(stage) == AgentType(stage)

\* the sections of the stages whose result is stored and carries its text key
RECURSIVE Sections(_, _, _)
Sections(stages, results, n) ==
    IF n > Len(stages) THEN <<>>
    ELSE (IF /\ ResultsKey(stages[n]) \in DOMAIN results
             /\ ResultKey(stages[n]) \in DOMAIN results[ResultsKey(stages[n])]
          THEN (IF stages = ComplexStages
                THEN ComplexSection(stages[n], results[ResultsKey(stages[n])])
                ELSE IoTSection(stages[n], results[ResultsKey(stages[n])]))
          ELSE <<>>)
           \o Sections(stages, results, n + 1)

\* "\n".join(roadmap_sections): str.join raises TypeError on an item that is None
JoinLines(roadmap_sections) ==
    Only({LET bad == {i \in 1..Len(items) : items[i] = None}
          IN  IF bad # {}
              THEN Raised(TypeError_join_a
                            \o Str((CHOOSE i \in bad : \A j \in bad : i <= j) - 1)
                            \o TypeError_join_b)
              ELSE Returned(Join(items, <<"\n">>))
          : items \in {roadmap_sections}})

_synthesize_comprehensive_roadmap(results) ==
    JoinLines(ComplexHeader \o Sections(ComplexStages, results, 1)
                \o ComplexClosing)

_synthesize_iot_roadmap(results) ==
    JoinLines(IoTHeader \o Sections(IoTStages, results, 1) \o IoTClosing)

\* repr(s) of a string, or of None
Repr(text) ==
    LET Quote(s) == IF (\E i \in 1..Len(s) : s[i] = "'") /\ ~(\E i \in 1..Len(s) : s[i] = "\"")
                    THEN "\"" ELSE "'"
        esc(c, q) == IF c = "\n" THEN <<"\\","n">>
                  ELSE IF c = "\t" THEN <<"\\","t">>
                  ELSE IF c = "\r" THEN <<"\\","r">>
                  ELSE IF c = "\\" THEN <<"\\","\\">>
                  ELSE IF c = q THEN <<"\\",c>>
                  ELSE <<c>>
    IN  Only({IF s = None THEN <<"N","o","n","e">>
              ELSE Only({<<q>> \o Join([i \in 1..Len(s) |-> esc(s[i], q)], <<>>) \o <<q>>
                         : q \in {Quote(s)}})
              : s \in {text}})

\* str(result) of an agent's result dict
StrResult(result) ==
    Only({IF "error" \in DOMAIN dict
          THEN ReprErrHead \o Repr(dict.error) \o ReprErrTail
          ELSE ReprHead(dict.agent_type) \o Repr(dict[ResultKey(dict.agent_type)])
                 \o ReprTail(dict.agent_type)
          : dict \in {result}})

\* a reading of the clock (datetime.now()), whose value is not modelled
Now == [clock |-> TRUE]

\* the entry _log_agent_result appends to the coordinator's workflow_history
_log_agent_result(history, agent_name, result) ==
    Append(history, [agent |-> agent_name, timestamp |-> Now,
                     success |-> "error" \notin DOMAIN result,
                     confidence |-> Get(result, "confidence", 0),
                     content_length |-> Len(StrResult(result))])

\* sum of len(str(agent_result)) // 4 over the stored results
_estimate_total_tokens(results) ==
    LET RECURSIVE Sum(_)
        Sum(S) == IF S = {} THEN 0
                  ELSE LET k == CHOOSE k \in S : TRUE
                       IN  (Len(StrResult(results[k])) \div 4) + Sum(S \ {k})
    IN  Sum(DOMAIN results)

\* variant: every agent gets the mean of the confidences (C7 fails under it)
_get_confidence_scores_mean(results) ==
    LET RECURSIVE Sum(_)
        Sum(S) == IF S = {} THEN 0
                  ELSE LET k == CHOOSE k \in S : TRUE
                       IN  Get(results[k], "confidence", 0) + Sum(S \ {k})
    IN  [agent_name \in DOMAIN results |-> Sum(DOMAIN results) \div Cardinality(DOMAIN results)]

\* _get_confidence_scores and _get_iot_confidence_scores
_get_confidence_scores(results) ==
    [agent_name \in DOMAIN results |-> Get(results[agent_name], "confidence", 0)]


----------------------------------------------------------------------------
(* The requests: the project descriptions a client may send.  The long      *)
(* ones exceed chunk_size characters, so chunk_text splits them.            *)

\* 'hi'
Text_hi ==
    <<"h","i">>

\* 'AI agent market research'
Text_complex ==
    <<"A","I"," ","a","g","e","n","t"," ","m","a","r","k","e","t"," ","r","e","s","e","a","r","c",
      "h">>

\* 'aquarium ESP32 pH sensor wiring'
Text_iot ==
    <<"a","q","u","a","r","i","u","m"," ","E","S","P","3","2"," ","p","H"," ","s","e","n","s","o",
      "r"," ","w","i","r","i","n","g">>

\* 'AI agent research ESP32 wiring'
Text_both ==
    <<"A","I"," ","a","g","e","n","t"," ","r","e","s","e","a","r","c","h"," ","E","S","P","3","2",
      " ","w","i","r","i","n","g">>

\* 'Build a blog.\n'
Head_general ==
    <<"B","u","i","l","d"," ","a"," ","b","l","o","g",".","\n">>

\* 'AI agent research.\n'
Head_complex ==
    <<"A","I"," ","a","g","e","n","t"," ","r","e","s","e","a","r","c","h",".","\n">>

\* 'ESP32 sensor wiring.\n'
Head_iot ==
    <<"E","S","P","3","2"," ","s","e","n","s","o","r"," ","w","i","r","i","n","g",".","\n">>

\* 'Plan it.\n'
FillerLine ==
    <<"P","l","a","n"," ","i","t",".","\n">>

\* the number of filler lines of a long description
FillerLines == 350

\* a head line followed by the filler lines
LongText(head) ==
    head \o [i \in 1..(FillerLines * Len(FillerLine)) |-> FillerLine[((i - 1) % Len(FillerLine)) + 1]]

InputTexts ==
    <<Text_hi, Text_complex, Text_iot, Text_both,
      LongText(Head_general), LongText(Head_complex), LongText(Head_iot)>>

\* the encodings of the tokenizer: characters packed in one token
Encodings == {1, 4}

\* the function x |-> Op(x) on S with its values computed
RECURSIVE Table(_, _)
Table(Op(_), S) ==
    IF S = {} THEN <<>>
    ELSE LET x == CHOOSE y \in S : TRUE
         IN  (x :> Op(x)) @@ Table(Op, S \ {x})

\* process_input of each description under each encoding, computed once
ProcessedInputs ==
    Table(LAMBDA e : Computed([i \in DOMAIN InputTexts |-> process_input(e, InputTexts[i])]),
          Encodings)

\* the two classifiers on each description, computed once
Classified ==
    Computed([i \in DOMAIN InputTexts |->
                 [complex_ai |-> _is_complex_ai_project(InputTexts[i]),
                  iot_hardware |-> _is_iot_hardware_project(InputTexts[i])]])
\* the cases of test_project_type_detection: a description and the type
\* the test expects for it
test_inputs ==
  << [description |->
         <<"B","u","i","l","d"," ","a","n"," ","i","O","S"," ","a","p","p"," ","f","o","r"," ",
           "f","i","t","n","e","s","s"," ","t","r","a","c","k","i","n","g">>,
      expected |-> "mobile_app"],
     [description |->
         <<"C","r","e","a","t","e"," ","a"," ","s","m","a","r","t"," ","h","o","m","e"," ","I",
           "o","T"," ","s","y","s","t","e","m"," ","w","i","t","h"," ","s","e","n","s","o","r","s">>,
      expected |-> "iot_hardware"],
     [description |->
         <<"D","e","v","e","l","o","p"," ","a","n"," ","e","-","c","o","m","m","e","r","c","e",
           " ","w","e","b","s","i","t","e"," ","w","i","t","h"," ","p","a","y","m","e","n","t",
           " ","i","n","t","e","g","r","a","t","i","o","n">>,
      expected |-> "web_platform"],
     [description |->
         <<"B","u","i","l","d"," ","a","n"," ","A","I"," ","c","h","a","t","b","o","t"," ","f",
           "o","r"," ","c","u","s","t","o","m","e","r"," ","s","e","r","v","i","c","e">>,
      expected |-> "ai_ml"],
     [description |->
         <<"C","r","e","a","t","e"," ","a","n"," ","o","n","l","i","n","e"," ","m","a","r","k",
           "e","t","p","l","a","c","e"," ","f","o","r"," ","h","a","n","d","m","a","d","e"," ",
           "c","r","a","f","t","s">>,
      expected |-> "ecommerce"],
     [description |->
         <<"D","e","v","e","l","o","p"," ","a"," ","d","e","s","k","t","o","p"," ","a","p","p",
           "l","i","c","a","t","i","o","n"," ","f","o","r"," ","f","i","l","e"," ","m","a","n",
           "a","g","e","m","e","n","t">>,
      expected |-> "general_software"] >>

\* more descriptions for the type detection: 'IOT dashboard for Android', 'Mobile web portal', 'AI store',
\* 'Shopping cart', 'Maintain the kiosk', 'notes'
TypeTexts ==
  << <<"I","O","T"," ","d","a","s","h","b","o","a","r","d"," ","f","o","r"," ","A","n","d","r",
       "o","i","d">>,
     <<"M","o","b","i","l","e"," ","w","e","b"," ","p","o","r","t","a","l">>,
     <<"A","I"," ","s","t","o","r","e">>,
     <<"S","h","o","p","p","i","n","g"," ","c","a","r","t">>,
     <<"M","a","i","n","t","a","i","n"," ","t","h","e"," ","k","i","o","s","k">>,
     <<"n","o","t","e","s">> >>

\* descriptions for the complex-AI test:
\*   'an AI team'
\*   'AI system for industry'
\*   'Multi-Agent study'
\*   'market research and business analysis'
\*   'machine learning solutions unbeatable daily idea'
\*   'machine learning solutions unbeatable daily idea profit'
\*   'Machine Learning SOLUTIONS Unbeatable Daily Idea Profit'
\*   'AI agent'
ComplexTexts ==
  << <<"a","n"," ","A","I"," ","t","e","a","m">>,
     <<"A","I"," ","s","y","s","t","e","m"," ","f","o","r"," ","i","n","d","u","s","t","r","y">>,
     <<"M","u","l","t","i","-","A","g","e","n","t"," ","s","t","u","d","y">>,
     <<"m","a","r","k","e","t"," ","r","e","s","e","a","r","c","h"," ","a","n","d"," ","b","u",
       "s","i","n","e","s","s"," ","a","n","a","l","y","s","i","s">>,
     <<"m","a","c","h","i","n","e"," ","l","e","a","r","n","i","n","g"," ","s","o","l","u","t",
       "i","o","n","s"," ","u","n","b","e","a","t","a","b","l","e"," ","d","a","i","l","y"," ",
       "i","d","e","a">>,
     <<"m","a","c","h","i","n","e"," ","l","e","a","r","n","i","n","g"," ","s","o","l","u","t",
       "i","o","n","s"," ","u","n","b","e","a","t","a","b","l","e"," ","d","a","i","l","y"," ",
       "i","d","e","a"," ","p","r","o","f","i","t">>,
     <<"M","a","c","h","i","n","e"," ","L","e","a","r","n","i","n","g"," ","S","O","L","U","T",
       "I","O","N","S"," ","U","n","b","e","a","t","a","b","l","e"," ","D","a","i","l","y"," ",
       "I","d","e","a"," ","P","r","o","f","i","t">>,
     <<"A","I"," ","a","g","e","n","t">> >>

----------------------------------------------------------------------------
(* Start-up: Config.validate_config, the construction of the orchestrator   *)
(* and the component lookup of the Strategist                               *)

\* 'OPENAI_API_KEY', 'GEMINI_API_KEY': the credentials validate_config tests,
\* in its order
RequiredKeys ==
    << <<"O","P","E","N","A","I","_","A","P","I","_","K","E","Y">>,
      <<"G","E","M","I","N","I","_","A","P","I","_","K","E","Y">> >>

\* variant: the error names the first missing key only (C30 fails under it)
validate_config_first_only(api_keys_set) ==
    LET \* the two tests, in order, each appending the name of a key not set
        missing_keys == SelectSeq(RequiredKeys, LAMBDA key : key \notin api_keys_set)
    IN  IF missing_keys # <<>>
        THEN \* f"Missing required API keys: {', '.join(missing_keys)}"
             Raised(<<"M","i","s","s","i","n","g"," ","r","e","q","u","i","r","e","d"," ","A","P",
                      "I"," ","k","e","y","s",":"," ">>
                      \o missing_keys[1])
        ELSE Returned(TRUE)

\* Config.validate_config, given the credentials that are set (and not empty)
validate_config(api_keys_set) ==
    LET \* the two tests, in order, each appending the name of a key not set
        missing_keys == SelectSeq(RequiredKeys, LAMBDA key : key \notin api_keys_set)
    IN  IF missing_keys # <<>>
        THEN \* f"Missing required API keys: {', '.join(missing_keys)}"
             Raised(<<"M","i","s","s","i","n","g"," ","r","e","q","u","i","r","e","d"," ","A","P",
                      "I"," ","k","e","y","s",":"," ">>
                      \o Join(missing_keys, <<",", " ">>))
        ELSE Returned(TRUE)

\* MultiAgentOrchestrator.__init__ as ProjectRefinerAPI.__init__ calls it: the
\* components constructed, in order, and the error raised if any
MultiAgentOrchestrator_init(api_keys_set) ==
    LET valid == validate_config(api_keys_set)
    IN  IF HasRaised(valid) THEN [constructed |-> <<>>, error |-> valid.raised]
        ELSE [constructed |-> <<"strategist", "refiner", "text_processor",
                                "multi_agent_coordinator">>,
              error |-> None]

\* app.py, lines 25-30: the module global project_api after start-up, the API
\* constructed or None
AppStartup(api_keys_set) ==
    IF MultiAgentOrchestrator_init(api_keys_set).error = None THEN <<"ProjectRefinerAPI">>
    ELSE None

\* the answer of the route /api/refine-project when project_api is None
ApiUnavailable ==
    [error |->
        <<"P","r","o","j","e","c","t"," ","R","e","f","i","n","e","r"," ","A","P","I"," ","n","o",
          "t"," ","a","v","a","i","l","a","b","l","e","."," ","P","l","e","a","s","e"," ","c","h",
          "e","c","k"," ","y","o","u","r"," ","A","P","I"," ","k","e","y","s"," ","i","n"," ",".",
          "e","n","v"," ","f","i","l","e",".">>,
     status |-> 500]

\* StrategistAgent.component_searcher: ComponentSearcher() when the import of
\* component_searcher succeeded (it needs requests and bs4), else None
ComponentSearcher == <<"ComponentSearcher">>

\* variant: the text of the exception becomes the component data (C29 fails
\* under it)
component_data_of_error(searcher, user_input) ==
    LET \* self.component_searcher.extract_components(user_input): class
        \* ComponentSearcher defines no extract_components
        components ==
            Raised(<<"'","C","o","m","p","o","n","e","n","t","S","e","a","r","c","h","e","r","'",
                     " ","o","b","j","e","c","t"," ","h","a","s"," ","n","o"," ","a","t","t","r",
                     "i","b","u","t","e"," ","'","e","x","t","r","a","c","t","_","c","o","m","p",
                     "o","n","e","n","t","s","'">>)
    IN  IF searcher = None THEN <<>>
        ELSE IF HasRaised(components)
             THEN \* except Exception as e: logger.warning(...)
                  components.raised
        ELSE \* search_components is not defined either
             <<>>

\* generate_initial_roadmap, lines 42-55: the component data folded into the
\* prompt of the draft
component_data(searcher, user_input) ==
    LET \* self.component_searcher.extract_components(user_input): class
        \* ComponentSearcher defines no extract_components
        components ==
            Raised(<<"'","C","o","m","p","o","n","e","n","t","S","e","a","r","c","h","e","r","'",
                     " ","o","b","j","e","c","t"," ","h","a","s"," ","n","o"," ","a","t","t","r",
                     "i","b","u","t","e"," ","'","e","x","t","r","a","c","t","_","c","o","m","p",
                     "o","n","e","n","t","s","'">>)
    IN  IF searcher = None THEN <<>>
        ELSE IF HasRaised(components)
             THEN \* except Exception as e: logger.warning(...)
                  <<>>
        ELSE \* search_components is not defined either
             <<>>


----------------------------------------------------------------------------
(* The orchestrator: MultiAgentOrchestrator and ProjectRefinerAPI           *)

\* the most requests of a sequence of requests, and the most LLM calls that
\* fail in it
MaxRequests == 2
MaxFaults == 1

\* the threads that may serve a request (app.run(threaded=True))
Threads == {"main", "worker"}

\* the descriptions sent by concurrent requests: 'hi', the complex_ai text and
\* the iot_hardware text
ConcurrentInputs == {1, 2, 3}

\* the two public methods of ProjectRefinerAPI
ApiMethods == {"refine_project", "refine_project_detailed"}

\* content[:200] of _log_workflow_step
PreviewLen == 200

\* a value not there yet: no result, an attribute not set
Pending == [pending |-> TRUE]

\* how far the lengths of the texts handed to the TextProcessor on its own
\* reach on either side of the direct/chunked threshold
Margin == 3

\* a text of n characters
ProbeText(n) == Computed([i \in 1..n |-> FillerLine[((i - 1) % Len(FillerLine)) + 1]])

\* the texts handed to the TextProcessor on its own: some short ones, and for
\* each encoding those whose token count lies around the threshold
ProbeTexts ==
    {ProbeText(n) : n \in 1..3}
      \cup {ProbeText(TokenThreshold * e + d) : e \in Encodings, d \in (0 - Margin)..Margin}

\* no text is handed to the TextProcessor on its own
NoProbe == <<>>

\* the descriptions handed to the two keyword tests on their own
ClassifierTexts ==
    {test_inputs[n].description : n \in DOMAIN test_inputs}
      \cup Range(TypeTexts) \cup Range(ComplexTexts)

\* a text of n characters 'a' with the characters of `marks` at their offsets
\* (0-based, as in text[i])
Marked(n, marks) ==
    Computed([i \in 1..n |-> IF (i - 1) \in DOMAIN marks THEN marks[i - 1] ELSE "a"])

\* a function on lo..hi with the one value c
Run(lo, hi, c) == [i \in lo..hi |-> c]

\* the texts handed to chunk_text for its windows: without any break, with
\* sentence terminators around the right edge of the first window, with a
\* blank line there, with white space around a window edge, and around
\* chunk_size characters long
ChunkTexts ==
    {Marked(2 * chunk_size - 300, <<>>),
     Marked(chunk_size + 2000, (chunk_size - 100) :> "."),
     Marked(chunk_size + 2000, (chunk_size - 150) :> "." @@ (chunk_size - 50) :> "!"),
     Marked(chunk_size + 2000, chunk_size :> "."),
     Marked(chunk_size + 2000, (chunk_size - Lookback) :> "?"),
     Marked(chunk_size + 2000, (chunk_size - Lookback + 1) :> "?"),
     Marked(chunk_size + 2000, (chunk_size - 1) :> "."),
     Marked(chunk_size + 2000, (chunk_size - 100) :> "\n" @@ (chunk_size - 99) :> "\n"),
     Marked(chunk_size + 100, Run(chunk_size - overlap_size, chunk_size + 99, " ")),
     Marked(chunk_size + 1, <<>>),
     Marked(chunk_size, <<>>),
     Marked(chunk_size, 0 :> " " @@ (chunk_size - 1) :> "\n"),
     Marked(100, Run(0, 1, " ") @@ Run(98, 99, "\n"))}

\* the sizes a TextProcessor is constructed with (chunk_size and
\* overlap_size): the defaults, and smaller ones whose chunk_size exceeds
\* the lookback plus the overlap by one or by more
Processors ==
    {[chunk_size |-> chunk_size, overlap_size |-> overlap_size],
     [chunk_size |-> Lookback + 1, overlap_size |-> 0],
     [chunk_size |-> Lookback + 51, overlap_size |-> 50],
     [chunk_size |-> 500, overlap_size |-> 250]}

\* shorter texts for the loop of chunk_text under the smaller sizes: without
\* any break, and with terminators at the far end of a lookback, right
\* after a window and next to each other
LoopTexts ==
    {Marked(700, <<>>),
     Marked(700, 2 :> "." @@ (Lookback + 4) :> "!"),
     Marked(700, (Lookback + 1) :> "." @@ 452 :> "?" @@ 453 :> "!"),
     Marked(1000, 301 :> "." @@ 500 :> "." @@ 552 :> "!" @@ 999 :> "."),
     Marked(Lookback + 2, 2 :> ".")}

\* the most passes of the loop of chunk_text that are followed
MaxPasses == 64

\* MultiAgentCoordinator.__init__ and IoTHardwareCoordinator.__init__
NewCoordinator == [analysis_results |-> EmptyDict, workflow_history |-> <<>>]

\* the locals of a request before it starts
NoFrame ==
    [route |-> "none", prepared_input |-> Pending, entry_history |-> <<>>,
     initial_roadmap |-> None, refiner_feedback_1 |-> None, refined_roadmap |-> None,
     market_analysis |-> None, architecture |-> None, synthesis |-> Pending,
     component_data |-> None]

VARIABLES
    encoding,                \* TextProcessor.encoding
    current_iteration,       \* MultiAgentOrchestrator.current_iteration
    workflow_history,        \* MultiAgentOrchestrator.workflow_history
    multi_agent_coordinator, \* its analysis_results and workflow_history
    iot_coordinator,         \* Pending until the first IoT request sets it
    threads,                 \* the threads serving requests
    pc,                      \* per thread: "idle", the stage whose LLM call is
                             \* in flight, or "done"
    api,                     \* per thread: the API method called
    request,                 \* per thread: the index of its project description
    frame,                   \* per thread: the locals of the request
    calls,                   \* per thread: the LLM calls the request has issued,
                             \* each with its arguments and then its outcome
    outcome,                 \* per thread: what process_project_request did
    result,                  \* per thread: what the API method did
    requests,                \* requests started so far
    faults,                  \* failed LLM calls so far, counted in a sequence
    budgeted,                \* the run is a sequence of requests with a fault budget
    probe,                   \* a text handed to the TextProcessor on its own
    prepared,                \* what prepare_input returned for it
    processed,               \* what process_input returned for it
    chunked,                 \* the chunks chunk_text returned for it, and the
                             \* windows text[start:end] it cut them from
    summarized,              \* what summarize_chunks returned for these chunks
    detected_type,           \* what _detect_project_type returned for it
    detected_complex,        \* what _is_complex_ai_project returned for it
    api_keys,                \* the credentials set in the environment
    component_searcher,      \* StrategistAgent.component_searcher
    project_api,             \* the module global project_api of app.py
    rejected,                \* per thread: the error the route answered with
                             \* without calling the API
    chunking                 \* a call of chunk_text pass by pass: the sizes of
                             \* its TextProcessor, start, chunks, the windows
                             \* cut so far, and where it is

vars ==
    <<encoding, current_iteration, workflow_history, multi_agent_coordinator,
      iot_coordinator, threads, pc, api, request, frame, calls, outcome, result,
      requests, faults, budgeted, probe, prepared, processed, chunked, summarized,
      detected_type, detected_complex, api_keys, component_searcher, project_api,
      rejected, chunking>>

\* what a run starts from
setup == <<encoding, threads, budgeted, probe, api_keys, component_searcher, project_api>>

\* the fields no action of a request changes
fixed ==
    <<setup, prepared, processed, chunked, summarized, detected_type, detected_complex,
      rejected, chunking>>

\* the fields a call of the TextProcessor or of a keyword test as a whole
\* leaves alone
served ==
    <<current_iteration, workflow_history, multi_agent_coordinator, iot_coordinator,
      pc, api, request, frame, calls, outcome, result, requests, faults, rejected,
      chunking>>

\* variant: the IoT test comes first (C1 fails under it)
Dispatch_iot_first(is_complex, is_iot, processing_type) ==
    IF is_iot THEN "iot"
    ELSE IF is_complex THEN "complex"
    ELSE IF processing_type = "direct" THEN "direct"
    ELSE "chunked"

\* process_project_request, lines 56-70: the branch taken
Dispatch(is_complex, is_iot, processing_type) ==
    IF is_complex THEN "complex"
    ELSE IF is_iot THEN "iot"
    ELSE IF processing_type = "direct" THEN "direct"
    ELSE "chunked"

_process_direct_input(content) == [type |-> "direct", content |-> content]

\* sum(count_tokens(chunk) for chunk in chunks)
RECURSIVE SumTokens(_, _, _)
SumTokens(e, chunks, n) ==
    IF n > Len(chunks) THEN 0 ELSE count_tokens(e, chunks[n]) + SumTokens(e, chunks, n + 1)

_process_chunked_input(e, chunks) ==
    [type |-> "chunked", summary |-> summarize_chunks(chunks), chunks |-> chunks,
     chunk_count |-> Len(chunks), token_count |-> SumTokens(e, chunks, 1)]

\* _process_chunked_input of each description that is chunked, computed once
ChunkedInputs ==
    Table(LAMBDA e : Computed([i \in DOMAIN InputTexts |->
              IF ProcessedInputs[e][i].processing_type = "chunked"
              THEN _process_chunked_input(e, ProcessedInputs[e][i].chunks)
              ELSE Pending]),
          Encodings)

\* the text _execute_workflow hands to the Strategist
strategist_input(prepared_input) ==
    IF prepared_input.type = "direct" THEN prepared_input.content
    ELSE SummaryIntro \o prepared_input.summary \o SummaryNote_a
           \o Str(prepared_input.chunk_count) \o SummaryNote_b
           \o Str(prepared_input.token_count) \o SummaryNote_c

\* the step record _log_workflow_step appends; len(None) raises TypeError
_log_workflow_step(history, iteration, step_type, content) ==
    IF content = None THEN Raised(TypeError_len)
    ELSE Returned(Append(history,
            [iteration |-> iteration, step_type |-> step_type, timestamp |-> Now,
             content_length |-> Len(content),
             content_preview |-> IF Len(content) > PreviewLen
                                 THEN Slice(content, 0, PreviewLen) \o Ellipsis3
                                 ELSE content]))

\* a step of _execute_workflow after its call: the agent method re-raises a
\* failed call, a returned text is logged
StepLogged(stage, o) ==
    IF o.kind = "raise" THEN Raised(StageErrorPrefix(stage) \o o.message)
    ELSE _log_workflow_step(workflow_history, current_iteration, stage, o.content)

\* variant: the except clause returns an empty roadmap with the error in the
\* metadata (C4 fails under it)
WorkflowFailed_partial(message) ==
    Returned([roadmap |-> <<>>, metadata |-> [error |-> Err_refinement_failed \o message]])

\* the except clause of _execute_workflow
WorkflowFailed(message) == Raised(Err_refinement_failed \o message)

\* variant: _execute_workflow returns the roadmap and the iterations without
\* a metadata dict (C16 fails under it)
WorkflowResult_flat(final_roadmap, iteration, history) ==
    Returned([roadmap |-> final_roadmap, iterations |-> iteration])

\* the dict _execute_workflow returns
WorkflowResult(final_roadmap, iteration, history) ==
    Returned([roadmap |-> final_roadmap,
              metadata |-> [iterations |-> iteration, processing_time |-> Now,
                            workflow_history |-> history]])

\* variant: analyze_complex_project raises when a stage has failed (C6 fails
\* under it)
analyze_complex_project_strict(coordinator) ==
    LET failed == {k \in DOMAIN coordinator.analysis_results :
                      "error" \in DOMAIN coordinator.analysis_results[k]}
    IN  IF failed # {}
        THEN Raised(Err_complex_failed
                      \o coordinator.analysis_results[CHOOSE k \in failed : TRUE].error)
        ELSE LET final_roadmap ==
                     _synthesize_comprehensive_roadmap(coordinator.analysis_results)
             IN  IF HasRaised(final_roadmap)
                 THEN Raised(Err_complex_failed \o final_roadmap.raised)
                 ELSE Returned([roadmap |-> final_roadmap.returned,
                                metadata |-> [processing_type |-> "multi_agent_complex"]])

\* the dict analyze_complex_project returns, or the exception it raises
analyze_complex_project_result(coordinator) ==
    LET final_roadmap == _synthesize_comprehensive_roadmap(coordinator.analysis_results)
    IN  IF HasRaised(final_roadmap) THEN Raised(Err_complex_failed \o final_roadmap.raised)
        ELSE Returned(
               [roadmap |-> final_roadmap.returned,
                metadata |-> [processing_type |-> "multi_agent_complex",
                              agents_used |-> ComplexStages,
                              processing_time |-> Now, timestamp |-> Now,
                              total_tokens |-> _estimate_total_tokens(coordinator.analysis_results),
                              confidence_scores |->
                                  _get_confidence_scores(coordinator.analysis_results)],
                agent_analyses |-> coordinator.analysis_results,
                workflow_history |-> coordinator.workflow_history])

\* variant: analyze_iot_project raises when a stage has failed (C34 fails
\* under it)
analyze_iot_project_strict(coordinator) ==
    LET failed == {k \in DOMAIN coordinator.analysis_results :
                      "error" \in DOMAIN coordinator.analysis_results[k]}
    IN  IF failed # {}
        THEN Raised(Err_iot_failed
                      \o coordinator.analysis_results[CHOOSE k \in failed : TRUE].error)
        ELSE LET final_roadmap == _synthesize_iot_roadmap(coordinator.analysis_results)
             IN  IF HasRaised(final_roadmap)
                 THEN Raised(Err_iot_failed \o final_roadmap.raised)
                 ELSE Returned([roadmap |-> final_roadmap.returned,
                                metadata |-> [processing_type |-> "iot_hardware_specialist"]])

\* the dict analyze_iot_project returns, or the exception it raises
analyze_iot_project_result(coordinator) ==
    LET final_roadmap == _synthesize_iot_roadmap(coordinator.analysis_results)
    IN  IF HasRaised(final_roadmap) THEN Raised(Err_iot_failed \o final_roadmap.raised)
        ELSE Returned(
               [roadmap |-> final_roadmap.returned,
                metadata |-> [processing_type |-> "iot_hardware_specialist",
                              agents_used |-> [n \in 1..Len(IoTStages) |-> AgentType(IoTStages[n])],
                              processing_time |-> Now, timestamp |-> Now,
                              confidence_scores |->
                                  _get_confidence_scores(coordinator.analysis_results)],
                agent_analyses |-> coordinator.analysis_results,
                workflow_history |-> coordinator.workflow_history])

\* variants: the except clause is entered whatever the coordinator did (C2
\* fails under it), and it is never entered (C8 fails under it)
Caught_always(synthesis) == TRUE
Caught_never(synthesis) == FALSE

\* the except clause of _process_complex_ai_project and of
\* _process_iot_hardware_project is entered when the coordinator raised
Caught(synthesis) == HasRaised(synthesis)

\* variants: refine_project_detailed catches as refine_project does (C9 fails
\* under it), and refine_project catches nothing (C10 fails under it)
ApiResult_catch_all(method, out) ==
    IF HasRaised(out) THEN Returned(Err_processing \o out.raised)
    ELSE IF method = "refine_project" THEN Returned(out.returned.roadmap)
    ELSE out
ApiResult_uncaught(method, out) ==
    IF method = "refine_project" /\ ~HasRaised(out) THEN Returned(out.returned.roadmap)
    ELSE out

\* what an API method makes of the outcome of process_project_request
ApiResult(method, out) ==
    IF method = "refine_project"
    THEN (IF HasRaised(out) THEN Returned(Err_processing \o out.raised)
          ELSE Returned(out.returned.roadmap))
    ELSE out

\* an LLM call as issued
Call(stage, args) == [stage |-> stage, args |-> args, reply |-> Pending]

\* variant: a call that raised is made a second time (C14 fails under it)
Answered_retry(log, o) ==
    LET done == [log EXCEPT ![Len(log)].reply = o]
    IN  IF o.kind = "raise" THEN Append(done, done[Len(done)]) ELSE done

\* the log once its last call has its outcome: the one call in the try block
\* of an agent method has returned or raised
Answered(log, o) == [log EXCEPT ![Len(log)].reply = o]

\* variant: the iteration counter counts every step (C3 fails under it)
IterationBefore_every_step(stage) ==
    CASE stage = "strategist_initial" -> 1
      [] stage = "strategist_refined" -> 3
      [] stage = "refiner_final" -> 4

\* the value _execute_workflow gives current_iteration before the call of a stage
IterationBefore(stage) ==
    CASE stage = "strategist_initial" -> 1
      [] stage = "strategist_refined" -> 2
      [] stage = "refiner_final" -> 3

\* an LLM call may fail while the fault budget of a sequence lasts
Allowed(o) == ~budgeted \/ ~IsFault(o) \/ faults < MaxFaults
Counted(o) == IF budgeted /\ IsFault(o) THEN faults + 1 ELSE faults

\* variant: the outcome is recorded and the request stays in its stage (C40
\* fails under it)
Deliver_unfinished(t, out) ==
    /\ outcome' = [outcome EXCEPT ![t] = out]
    /\ result' = [result EXCEPT ![t] = ApiResult(api[t], out)]
    /\ pc' = pc

\* the request of thread t ends: process_project_request returns or raises,
\* and the API method with it
Deliver(t, out) ==
    /\ outcome' = [outcome EXCEPT ![t] = out]
    /\ result' = [result EXCEPT ![t] = ApiResult(api[t], out)]
    /\ pc' = [pc EXCEPT ![t] = "done"]

\* _execute_workflow up to the call of the Strategist for the draft
_execute_workflow(t, prepared_input, fr, log) ==
    /\ current_iteration' = IterationBefore("strategist_initial")
    /\ frame' = [frame EXCEPT ![t] =
                    [fr EXCEPT !.prepared_input = prepared_input,
                               !.entry_history = workflow_history,
                               !.component_data =
                                   component_data(component_searcher,
                                                  strategist_input(prepared_input))]]
    /\ calls' = [calls EXCEPT ![t] = Append(log,
                    Call("strategist_initial", <<strategist_input(prepared_input)>>))]
    /\ pc' = [pc EXCEPT ![t] = "strategist_initial"]

Init ==
    /\ encoding \in Encodings
    /\ current_iteration = 0
    /\ workflow_history = <<>>
    /\ multi_agent_coordinator = NewCoordinator
    /\ iot_coordinator = Pending
    /\ threads \in {{"main"}, Threads}
    /\ pc = [t \in Threads |-> "idle"]
    /\ api = [t \in Threads |-> "refine_project"]
    /\ request = [t \in Threads |-> 1]
    /\ frame = [t \in Threads |-> NoFrame]
    /\ calls = [t \in Threads |-> <<>>]
    /\ outcome = [t \in Threads |-> Pending]
    /\ result = [t \in Threads |-> Pending]
    /\ requests = 0
    /\ faults = 0
    /\ budgeted \in BOOLEAN
    /\ probe \in {NoProbe} \cup ProbeTexts \cup ChunkTexts \cup ClassifierTexts \cup LoopTexts
    /\ prepared = Pending
    /\ processed = Pending
    /\ chunked = Pending
    /\ summarized = Pending
    /\ detected_type = Pending
    /\ detected_complex = Pending
    /\ api_keys \in SUBSET Range(RequiredKeys)
    /\ component_searcher \in {None, ComponentSearcher}
    /\ project_api = AppStartup(api_keys)
    /\ rejected = [t \in Threads |-> Pending]
    /\ chunking = Pending

\* both credentials are set, and requests and bs4 are installed
Installed == api_keys = Range(RequiredKeys) /\ component_searcher = ComponentSearcher

\* the requests clients send: any description by either method when requests
\* come one at a time, the short descriptions by the detailed method when they
\* are served concurrently
Offered(method, i) ==
    threads = Threads => method = "refine_project_detailed" /\ i \in ConcurrentInputs

\* variant: the coordinators are handed the content of the processed input
\* (C39 fails under it)
coordinator_input_processed(e, i) == ProcessedInputs[e][i].content

\* the project_description of a coordinator: process_project_request hands
\* them user_input itself (lines 58 and 63), not processed_input
coordinator_input(e, i) == InputTexts[i]

\* a client calls an API method: process_project_request up to the first call
Start(t, method, i) ==
    /\ pc[t] \in {"idle", "done"}
    /\ project_api # None
    /\ Offered(method, i)
    /\ requests < (IF budgeted THEN MaxRequests ELSE 1)
    /\ requests' = requests + 1
    /\ api' = [api EXCEPT ![t] = method]
    /\ request' = [request EXCEPT ![t] = i]
    /\ outcome' = [outcome EXCEPT ![t] = Pending]
    /\ result' = [result EXCEPT ![t] = Pending]
    /\ LET processed_input == ProcessedInputs[encoding][i]
           route == Dispatch(Classified[i].complex_ai, Classified[i].iot_hardware,
                             processed_input.processing_type)
           fr == [NoFrame EXCEPT !.route = route]
       IN  CASE route = "complex" ->
                  /\ frame' = [frame EXCEPT ![t] = fr]
                  /\ calls' = [calls EXCEPT ![t] =
                                  <<Call("market_research", <<coordinator_input(encoding, i)>>)>>]
                  /\ pc' = [pc EXCEPT ![t] = "market_research"]
                  /\ UNCHANGED <<current_iteration, iot_coordinator>>
             [] route = "iot" ->
                  /\ iot_coordinator' = IF iot_coordinator = Pending THEN NewCoordinator
                                        ELSE iot_coordinator
                  /\ frame' = [frame EXCEPT ![t] = fr]
                  /\ calls' = [calls EXCEPT ![t] =
                                  <<Call("hardware_specialist",
                                         <<coordinator_input(encoding, i)>>)>>]
                  /\ pc' = [pc EXCEPT ![t] = "hardware_specialist"]
                  /\ UNCHANGED current_iteration
             [] route = "direct" ->
                  /\ _execute_workflow(t, _process_direct_input(processed_input.content),
                                       fr, <<>>)
                  /\ UNCHANGED iot_coordinator
             [] route = "chunked" ->
                  /\ _execute_workflow(t, ChunkedInputs[encoding][i], fr, <<>>)
                  /\ UNCHANGED iot_coordinator
    /\ UNCHANGED <<workflow_history, multi_agent_coordinator, faults, fixed>>

\* generate_initial_roadmap returns or raises; then the call of the Refiner
DraftReturns(t, o) ==
    /\ pc[t] = "strategist_initial"
    /\ o \in Outcomes("strategist_initial") /\ Allowed(o)
    /\ faults' = Counted(o)
    /\ LET logged == StepLogged("strategist_initial", o)
       IN  IF HasRaised(logged)
           THEN /\ Deliver(t, WorkflowFailed(logged.raised))
                /\ calls' = [calls EXCEPT ![t] = Answered(@, o)]
                /\ UNCHANGED <<workflow_history, frame>>
           ELSE /\ workflow_history' = logged.returned
                /\ frame' = [frame EXCEPT ![t].initial_roadmap = o.content]
                /\ calls' = [calls EXCEPT ![t] = Append(Answered(@, o),
                    Call("refiner_feedback_1", <<o.content>>))]
                /\ pc' = [pc EXCEPT ![t] = "refiner_feedback_1"]
                /\ UNCHANGED <<outcome, result>>
    /\ UNCHANGED <<current_iteration, multi_agent_coordinator, iot_coordinator, api, request,
                   requests, fixed>>

\* analyze_roadmap returns or raises; then iteration 2 and the call to refine
CritiqueReturns(t, o) ==
    /\ pc[t] = "refiner_feedback_1"
    /\ o \in Outcomes("refiner_feedback_1") /\ Allowed(o)
    /\ faults' = Counted(o)
    /\ LET logged == StepLogged("refiner_feedback_1", o)
       IN  IF HasRaised(logged)
           THEN /\ Deliver(t, WorkflowFailed(logged.raised))
                /\ calls' = [calls EXCEPT ![t] = Answered(@, o)]
                /\ UNCHANGED <<workflow_history, current_iteration, frame>>
           ELSE /\ workflow_history' = logged.returned
                /\ current_iteration' = IterationBefore("strategist_refined")
                /\ frame' = [frame EXCEPT ![t].refiner_feedback_1 = o.content]
                /\ calls' = [calls EXCEPT ![t] = Append(Answered(@, o),
                    Call("strategist_refined", <<frame[t].initial_roadmap, o.content>>))]
                /\ pc' = [pc EXCEPT ![t] = "strategist_refined"]
                /\ UNCHANGED <<outcome, result>>
    /\ UNCHANGED <<multi_agent_coordinator, iot_coordinator, api, request, requests, fixed>>

\* refine_roadmap returns or raises; then iteration 3 and the final evaluation
ReviseReturns(t, o) ==
    /\ pc[t] = "strategist_refined"
    /\ o \in Outcomes("strategist_refined") /\ Allowed(o)
    /\ faults' = Counted(o)
    /\ LET logged == StepLogged("strategist_refined", o)
       IN  IF HasRaised(logged)
           THEN /\ Deliver(t, WorkflowFailed(logged.raised))
                /\ calls' = [calls EXCEPT ![t] = Answered(@, o)]
                /\ UNCHANGED <<workflow_history, current_iteration, frame>>
           ELSE /\ workflow_history' = logged.returned
                /\ current_iteration' = IterationBefore("refiner_final")
                /\ frame' = [frame EXCEPT ![t].refined_roadmap = o.content]
                /\ calls' = [calls EXCEPT ![t] = Append(Answered(@, o),
                    Call("refiner_final", <<o.content>>))]
                /\ pc' = [pc EXCEPT ![t] = "refiner_final"]
                /\ UNCHANGED <<outcome, result>>
    /\ UNCHANGED <<multi_agent_coordinator, iot_coordinator, api, request, requests, fixed>>

\* variant: _execute_workflow returns the revised roadmap it handed to the
\* final evaluation (C31 fails under it)
FinalizeReturns_revised(t, o) ==
    /\ pc[t] = "refiner_final"
    /\ o \in Outcomes("refiner_final") /\ Allowed(o)
    /\ faults' = Counted(o)
    /\ LET logged == StepLogged("refiner_final", o)
       IN  IF HasRaised(logged)
           THEN /\ Deliver(t, WorkflowFailed(logged.raised))
                /\ UNCHANGED workflow_history
           ELSE /\ workflow_history' = logged.returned
                /\ Deliver(t, WorkflowResult(frame[t].refined_roadmap, current_iteration,
                                             logged.returned))
    /\ calls' = [calls EXCEPT ![t] = Answered(@, o)]
    /\ UNCHANGED <<current_iteration, multi_agent_coordinator, iot_coordinator, api, request,
                   frame, requests, fixed>>

\* final_evaluation returns or raises; _execute_workflow returns its dict
FinalizeReturns(t, o) ==
    /\ pc[t] = "refiner_final"
    /\ o \in Outcomes("refiner_final") /\ Allowed(o)
    /\ faults' = Counted(o)
    /\ LET logged == StepLogged("refiner_final", o)
       IN  IF HasRaised(logged)
           THEN /\ Deliver(t, WorkflowFailed(logged.raised))
                /\ UNCHANGED workflow_history
           ELSE /\ workflow_history' = logged.returned
                /\ Deliver(t, WorkflowResult(o.content, current_iteration, logged.returned))
    /\ calls' = [calls EXCEPT ![t] = Answered(@, o)]
    /\ UNCHANGED <<current_iteration, multi_agent_coordinator, iot_coordinator, api, request,
                   frame, requests, fixed>>

\* variant: the result of a stage is stored only when the coordinator holds
\* none for it yet (C35 fails under it)
Stored_first_only(coordinator, stage, agent_result) ==
    [analysis_results |->
         IF ResultsKey(stage) \in DOMAIN coordinator.analysis_results
         THEN coordinator.analysis_results
         ELSE Put(coordinator.analysis_results, ResultsKey(stage), agent_result),
     workflow_history |-> _log_agent_result(coordinator.workflow_history, ResultsKey(stage),
                                            agent_result)]

\* a stage of analyze_complex_project after its agent returned: the result is
\* stored and logged
Stored(coordinator, stage, agent_result) ==
    [analysis_results |-> Put(coordinator.analysis_results, ResultsKey(stage), agent_result),
     workflow_history |-> _log_agent_result(coordinator.workflow_history, ResultsKey(stage),
                                            agent_result)]

\* a stage of analyze_iot_project after its agent returned: the result is stored
StoredIoT(coordinator, stage, agent_result) ==
    [analysis_results |-> Put(coordinator.analysis_results, ResultsKey(stage), agent_result),
     workflow_history |-> coordinator.workflow_history]

\* phase 1 returns; then the call of phase 2, the Technical Architect
MarketReturns(t, o) ==
    /\ pc[t] = "market_research"
    /\ o \in Outcomes("market_research") /\ Allowed(o)
    /\ faults' = Counted(o)
    /\ LET market_result == AgentResult("market_research", o)
           market_analysis == Get(market_result, "analysis", <<>>)
       IN  /\ multi_agent_coordinator' =
                  Stored(multi_agent_coordinator, "market_research", market_result)
           /\ frame' = [frame EXCEPT ![t].market_analysis = market_analysis]
           /\ calls' = [calls EXCEPT ![t] = Append(Answered(@, o),
                    Call("technical_architect",
                         <<coordinator_input(encoding, request[t]), market_analysis>>))]
    /\ pc' = [pc EXCEPT ![t] = "technical_architect"]
    /\ UNCHANGED <<current_iteration, workflow_history, iot_coordinator, api, request, outcome,
                   result, requests, fixed>>

\* phase 2 returns; then the call of phase 3, the AI Specialist
TechReturns(t, o) ==
    /\ pc[t] = "technical_architect"
    /\ o \in Outcomes("technical_architect") /\ Allowed(o)
    /\ faults' = Counted(o)
    /\ LET tech_result == AgentResult("technical_architect", o)
           architecture == Get(tech_result, "architecture", <<>>)
       IN  /\ multi_agent_coordinator' =
                  Stored(multi_agent_coordinator, "technical_architect", tech_result)
           /\ frame' = [frame EXCEPT ![t].architecture = architecture]
           /\ calls' = [calls EXCEPT ![t] = Append(Answered(@, o),
                    Call("ai_specialist",
                         <<coordinator_input(encoding, request[t]), architecture>>))]
    /\ pc' = [pc EXCEPT ![t] = "ai_specialist"]
    /\ UNCHANGED <<current_iteration, workflow_history, iot_coordinator, api, request, outcome,
                   result, requests, fixed>>

\* phase 3 returns; then the call of phase 4, the Business Strategy agent
AIReturns(t, o) ==
    /\ pc[t] = "ai_specialist"
    /\ o \in Outcomes("ai_specialist") /\ Allowed(o)
    /\ faults' = Counted(o)
    /\ multi_agent_coordinator' =
           Stored(multi_agent_coordinator, "ai_specialist", AgentResult("ai_specialist", o))
    /\ calls' = [calls EXCEPT ![t] = Append(Answered(@, o),
                    Call("business_strategy",
                         <<coordinator_input(encoding, request[t]), frame[t].market_analysis,
                                                frame[t].architecture>>))]
    /\ pc' = [pc EXCEPT ![t] = "business_strategy"]
    /\ UNCHANGED <<current_iteration, workflow_history, iot_coordinator, api, request, frame,
                   outcome, result, requests, fixed>>

\* phase 4 returns; then the call of phase 5 with all the analyses so far
BusinessReturns(t, o) ==
    /\ pc[t] = "business_strategy"
    /\ o \in Outcomes("business_strategy") /\ Allowed(o)
    /\ faults' = Counted(o)
    /\ LET coordinator == Stored(multi_agent_coordinator, "business_strategy",
                                 AgentResult("business_strategy", o))
       IN  /\ multi_agent_coordinator' = coordinator
           /\ calls' = [calls EXCEPT ![t] = Append(Answered(@, o),
                    Call("implementation", <<coordinator.analysis_results>>))]
    /\ pc' = [pc EXCEPT ![t] = "implementation"]
    /\ UNCHANGED <<current_iteration, workflow_history, iot_coordinator, api, request, frame,
                   outcome, result, requests, fixed>>

\* str(result) of the dict of a coordinator: a text whose characters are not
\* modelled
StrOfDict(dict) == [str |-> dict]

\* the dict of a coordinator in the shape {roadmap, metadata}: returned as it
\* is when it has both keys, converted otherwise
Envelope(dict, route) ==
    IF "roadmap" \in DOMAIN dict /\ "metadata" \in DOMAIN dict THEN dict
    ELSE [roadmap |-> Get(dict, "final_roadmap", Get(dict, "roadmap", StrOfDict(dict))),
          metadata |-> Get(dict, "metadata",
                           [processing_method |-> IF route = "complex"
                                                  THEN "complex_ai_coordinator"
                                                  ELSE "iot_hardware_coordinator",
                            timestamp |-> Now])]

\* after a coordinator is done: its dict is returned as the request's result,
\* or its exception is caught and the refinement loop runs on the content of
\* process_input
AfterSynthesis(t, o, synthesis) ==
    LET fr == [frame[t] EXCEPT !.synthesis = synthesis]
    IN  IF Caught(synthesis)
        THEN /\ _execute_workflow(t,
                    _process_direct_input(ProcessedInputs[encoding][request[t]].content),
                    fr, Answered(calls[t], o))
             /\ UNCHANGED <<outcome, result>>
        ELSE /\ Deliver(t, IF HasRaised(synthesis) THEN synthesis
                           ELSE Returned(Envelope(synthesis.returned, frame[t].route)))
             /\ frame' = [frame EXCEPT ![t] = fr]
             /\ calls' = [calls EXCEPT ![t] = Answered(@, o)]
             /\ UNCHANGED current_iteration

\* phase 5 returns; the roadmap is synthesized and analyze_complex_project ends
ImplReturns(t, o) ==
    /\ pc[t] = "implementation"
    /\ o \in Outcomes("implementation") /\ Allowed(o)
    /\ faults' = Counted(o)
    /\ \E coordinator \in {Stored(multi_agent_coordinator, "implementation",
                                   AgentResult("implementation", o))} :
       \E synthesis \in {analyze_complex_project_result(coordinator)} :
           /\ multi_agent_coordinator' = coordinator
           /\ AfterSynthesis(t, o, synthesis)
    /\ UNCHANGED <<workflow_history, iot_coordinator, api, request, requests, fixed>>

\* the hardware specialist returns; then the call of the component researcher
HardwareReturns(t, o) ==
    /\ pc[t] = "hardware_specialist"
    /\ o \in Outcomes("hardware_specialist") /\ Allowed(o)
    /\ faults' = Counted(o)
    /\ iot_coordinator' = StoredIoT(iot_coordinator, "hardware_specialist",
                                    AgentResult("hardware_specialist", o))
    /\ calls' = [calls EXCEPT ![t] = Append(Answered(@, o),
                    Call("component_researcher", <<coordinator_input(encoding, request[t])>>))]
    /\ pc' = [pc EXCEPT ![t] = "component_researcher"]
    /\ UNCHANGED <<current_iteration, workflow_history, multi_agent_coordinator, api, request,
                   frame, outcome, result, requests, fixed>>

\* the component researcher returns; then the call of the technical architect
ComponentReturns(t, o) ==
    /\ pc[t] = "component_researcher"
    /\ o \in Outcomes("component_researcher") /\ Allowed(o)
    /\ faults' = Counted(o)
    /\ iot_coordinator' = StoredIoT(iot_coordinator, "component_researcher",
                                    AgentResult("component_researcher", o))
    /\ calls' = [calls EXCEPT ![t] = Append(Answered(@, o),
                    Call("iot_technical_architect", <<coordinator_input(encoding, request[t])>>))]
    /\ pc' = [pc EXCEPT ![t] = "iot_technical_architect"]
    /\ UNCHANGED <<current_iteration, workflow_history, multi_agent_coordinator, api, request,
                   frame, outcome, result, requests, fixed>>

\* the technical architect returns; then the call of the implementation planner
ArchitectReturns(t, o) ==
    /\ pc[t] = "iot_technical_architect"
    /\ o \in Outcomes("iot_technical_architect") /\ Allowed(o)
    /\ faults' = Counted(o)
    /\ iot_coordinator' = StoredIoT(iot_coordinator, "iot_technical_architect",
                                    AgentResult("iot_technical_architect", o))
    /\ calls' = [calls EXCEPT ![t] = Append(Answered(@, o),
                    Call("implementation_planner", <<coordinator_input(encoding, request[t])>>))]
    /\ pc' = [pc EXCEPT ![t] = "implementation_planner"]
    /\ UNCHANGED <<current_iteration, workflow_history, multi_agent_coordinator, api, request,
                   frame, outcome, result, requests, fixed>>

\* the implementation planner returns; the roadmap is synthesized and
\* analyze_iot_project ends
PlannerReturns(t, o) ==
    /\ pc[t] = "implementation_planner"
    /\ o \in Outcomes("implementation_planner") /\ Allowed(o)
    /\ faults' = Counted(o)
    /\ \E coordinator \in {StoredIoT(iot_coordinator, "implementation_planner",
                                      AgentResult("implementation_planner", o))} :
       \E synthesis \in {analyze_iot_project_result(coordinator)} :
           /\ iot_coordinator' = coordinator
           /\ AfterSynthesis(t, o, synthesis)
    /\ UNCHANGED <<workflow_history, multi_agent_coordinator, api, request, requests, fixed>>

\* the outcomes a call can have, over all stages
AllOutcomes ==
    UNION {Outcomes(stage) : stage \in Range(RefinementStages) \cup Range(ComplexStages)
                                         \cup Range(IoTStages)}

Next ==
    \E t \in threads :
        \/ \E method \in ApiMethods, i \in DOMAIN InputTexts : Start(t, method, i)
        \/ \E o \in AllOutcomes : DraftReturns(t, o)
        \/ \E o \in AllOutcomes : CritiqueReturns(t, o)
        \/ \E o \in AllOutcomes : ReviseReturns(t, o)
        \/ \E o \in AllOutcomes : FinalizeReturns(t, o)
        \/ \E o \in AllOutcomes : MarketReturns(t, o)
        \/ \E o \in AllOutcomes : TechReturns(t, o)
        \/ \E o \in AllOutcomes : AIReturns(t, o)
        \/ \E o \in AllOutcomes : BusinessReturns(t, o)
        \/ \E o \in AllOutcomes : ImplReturns(t, o)
        \/ \E o \in AllOutcomes : HardwareReturns(t, o)
        \/ \E o \in AllOutcomes : ComponentReturns(t, o)
        \/ \E o \in AllOutcomes : ArchitectReturns(t, o)
        \/ \E o \in AllOutcomes : PlannerReturns(t, o)

\* one request on a freshly constructed orchestrator, every call free to fail
InitOne == Init /\ ~budgeted /\ threads = {"main"} /\ probe = NoProbe /\ Installed
Spec == InitOne /\ [][Next]_vars

\* a sequence of requests on one orchestrator, with a budget of failed calls
InitSeq == Init /\ budgeted /\ threads = {"main"} /\ probe = NoProbe /\ Installed
SpecSeq == InitSeq /\ [][Next]_vars

\* requests served by two threads on the one orchestrator of the web app
\* (project_api is a module global and app.run is threaded), with the same
\* budgets
InitConc ==
    Init /\ budgeted /\ threads = Threads /\ encoding = 1 /\ probe = NoProbe /\ Installed
SpecConc == InitConc /\ [][Next]_vars


----------------------------------------------------------------------------
(* Properties                                                               *)

\* the stages a request has called so far, in call order
StagesCalled(t) == [k \in 1..Len(calls[t]) |-> calls[t][k].stage]

\* the pipeline a stage belongs to
PipelineOf(stage) ==
    IF stage \in Range(ComplexStages) THEN "generic"
    ELSE IF stage \in Range(IoTStages) THEN "iot"
    ELSE "loop"

\* the pipelines of which a request has called a stage
PipelinesRun(t) == {PipelineOf(calls[t][k].stage) : k \in 1..Len(calls[t])}

\* the call has its outcome, and it is a failure / a text
Failed(call) == call.reply # Pending /\ IsFault(call.reply)
Succeeded(call) == call.reply # Pending /\ ~IsFault(call.reply)

\* the calls of the refinement loop among the calls of a request
IsLoopCall(call) == call.stage \in Range(RefinementStages)
LoopCalls(t) == SelectSeq(calls[t], IsLoopCall)

\* the call a request made of a stage
StageCall(t, stage) == calls[t][CHOOSE k \in 1..Len(calls[t]) : calls[t][k].stage = stage]

\* the request ran a synthesis coordinator, which returned / raised
SynthesisReturned(t) == "returned" \in DOMAIN frame[t].synthesis
SynthesisRaised(t) == "raised" \in DOMAIN frame[t].synthesis
GenericReturned(t) == frame[t].route = "complex" /\ SynthesisReturned(t)

\* the request is over and process_project_request returned the dict of the
\* refinement loop
LoopSucceeded(t) ==
    /\ pc[t] = "done"
    /\ "returned" \in DOMAIN outcome[t]
    /\ "iterations" \in DOMAIN outcome[t].returned.metadata

\* what str(e) is in _execute_workflow when the call of a step has failed
Cause(call) ==
    IF call.reply.kind = "raise" THEN StageErrorPrefix(call.stage) \o call.reply.message
    ELSE TypeError_len

\* both classifiers answer true on description i
BothMatch(i) == Classified[i].complex_ai /\ Classified[i].iot_hardware


\* C1: a request whose text both _is_complex_ai_project and
\* _is_iot_hardware_project accept is dispatched to the generic synthesis
\* pipeline (its first call is the market research stage) and never calls a
\* stage of the IoT pipeline.
C1_BothMatchGoesGeneric ==
    \A t \in threads :
        pc[t] # "idle" /\ BothMatch(request[t]) =>
            /\ frame[t].route = "complex"
            /\ calls[t][1].stage = "market_research"
            /\ "iot" \notin PipelinesRun(t)

C1_Witness ==
    \E t \in threads :
        /\ pc[t] = "done"
        /\ BothMatch(request[t])
        /\ SynthesisReturned(t)
        /\ outcome[t].returned.metadata.processing_type = "multi_agent_complex"

\* the pipeline the spec's sequence selects for description i
ExpectedPipeline(i) ==
    IF Classified[i].complex_ai THEN "generic"
    ELSE IF Classified[i].iot_hardware THEN "iot"
    ELSE "loop"

StepIterations == <<1, 1, 2, 3>>

\* C3: when a run of the refinement loop has succeeded, workflow_history is
\* what it was when the run began followed by exactly four step records:
\* strategist_initial, refiner_feedback_1, strategist_refined, refiner_final,
\* with iterations 1, 1, 2, 3, each with the length of the text of its step.
C3_FourStepRecords ==
    \A t \in threads :
        LoopSucceeded(t) =>
            LET n == Len(frame[t].entry_history)
                loop == LoopCalls(t)
            IN  /\ Len(workflow_history) = n + 4
                /\ SubSeq(workflow_history, 1, n) = frame[t].entry_history
                /\ \A k \in 1..4 :
                       /\ workflow_history[n + k].step_type = RefinementStages[k]
                       /\ workflow_history[n + k].iteration = StepIterations[k]
                       /\ workflow_history[n + k].content_length = Len(loop[k].reply.content)

C3_Witness ==
    \E t \in threads :
        /\ LoopSucceeded(t)
        /\ frame[t].entry_history # <<>>
        /\ requests = 2

\* C4: when the LLM call of step k of the refinement loop has failed, the
\* request is over, process_project_request has raised the loop's error and
\* returned no dict, the failed call is the last call (no step after k was
\* invoked), and what refine_project returns holds none of the texts of the
\* steps.
C4_FailedStepAborts ==
    \A t \in threads :
        \A k \in 1..Len(calls[t]) :
            IsLoopCall(calls[t][k]) /\ Failed(calls[t][k]) =>
                /\ pc[t] = "done"
                /\ HasRaised(outcome[t])
                /\ StartsWith(outcome[t].raised, Err_refinement_failed)
                /\ k = Len(calls[t])
                /\ \A j \in 1..4 :
                       /\ RefinementStages[j] = calls[t][k].stage =>
                              Len(LoopCalls(t)) = j
                       /\ api[t] = "refine_project" =>
                              ~Contains(result[t].returned, Reply(RefinementStages[j]))

C4_Witness ==
    \E t \in threads :
        /\ pc[t] = "done"
        /\ frame[t].route = "direct"
        /\ Len(calls[t]) = 3
        /\ calls[t][3].stage = "strategist_refined"
        /\ Failed(calls[t][3])
        /\ Len(workflow_history) = 2

\* the places of the heading of a stage's section in a roadmap
HeadingAt(roadmap, stage) ==
    Occurrences(roadmap, ComplexHeading(stage), 1,
                Len(roadmap) - Len(ComplexHeading(stage)) + 1)

\* C5: in the roadmap a generic synthesis returned, the section of a stage
\* occurs (once, with the stage's text under its heading) if the stage's call
\* succeeded and does not occur if it failed, and the sections that occur are
\* in the order market research, technical architecture, AI/ML design,
\* business strategy, implementation plan.
C5_SectionsOfSucceededStages ==
    \A t \in threads :
        GenericReturned(t) =>
            LET roadmap == frame[t].synthesis.returned.roadmap
                ok(stage) == Succeeded(StageCall(t, stage))
                at == Computed([n \in 1..Len(ComplexStages) |->
                                   HeadingAt(roadmap, ComplexStages[n])])
                section(stage) ==
                    ComplexHeading(stage) \o <<"\n", "\n">>
                      \o _format_section_content(StageCall(t, stage).reply.content)
                      \o <<"\n", "\n", "-", "-", "-", "\n">>
            IN  /\ \A n \in 1..Len(ComplexStages) :
                       IF ok(ComplexStages[n])
                       THEN /\ Len(at[n]) = 1
                            /\ SubSeq(roadmap, at[n][1],
                                      at[n][1] + Len(section(ComplexStages[n])) - 1)
                                   = section(ComplexStages[n])
                       ELSE at[n] = <<>>
                /\ \A m, n \in 1..Len(ComplexStages) :
                       m < n /\ ok(ComplexStages[m]) /\ ok(ComplexStages[n]) =>
                           at[m][1] < at[n][1]

C5_Witness ==
    \E t \in threads :
        /\ pc[t] = "done"
        /\ GenericReturned(t)
        /\ Failed(StageCall(t, "business_strategy"))
        /\ \A stage \in Range(ComplexStages) \ {"business_strategy"} :
               Succeeded(StageCall(t, stage))

C7_ConfidencePerStage ==
    \A t \in threads :
        GenericReturned(t) =>
            LET scores == frame[t].synthesis.returned.metadata.confidence_scores
            IN  /\ DOMAIN scores = Range(ComplexStages)
                /\ \A stage \in Range(ComplexStages) :
                       scores[stage] = IF Succeeded(StageCall(t, stage))
                                       THEN Confidence(stage)
                                       ELSE 0

C7_Witness ==
    \E t \in threads :
        /\ pc[t] = "done"
        /\ GenericReturned(t)
        /\ Failed(StageCall(t, "ai_specialist"))
        /\ outcome[t].returned.metadata.confidence_scores["ai_specialist"] = 0
        /\ outcome[t].returned.metadata.confidence_scores["implementation"] = 92

\* the text the fallback hands to the refinement loop: the original text of a
\* request of at most 2000 tokens, the summary of its chunks otherwise
FallbackContent(t) ==
    IF ProcessedInputs[encoding][request[t]].token_count <= TokenThreshold
    THEN InputTexts[request[t]]
    ELSE ChunkedInputs[encoding][request[t]].summary

\* C8: when the synthesis coordinator of a request has raised, the request
\* goes on with the refinement loop: the Strategist is called for a draft
\* exactly once, on the preprocessed input taken as a direct input, and when
\* the request is over process_project_request has done what that loop did:
\* returned its dict (the final text, 3 iterations) if its four calls
\* succeeded, raised its error otherwise.
C8_FallbackToRefinementLoop ==
    \A t \in threads :
        SynthesisRaised(t) =>
            LET loop == LoopCalls(t)
            IN  /\ Len(loop) >= 1
                /\ loop[1].stage = "strategist_initial"
                /\ loop[1].args = <<FallbackContent(t)>>
                /\ frame[t].prepared_input = [type |-> "direct", content |-> FallbackContent(t)]
                /\ Cardinality({k \in 1..Len(loop) : loop[k].stage = "strategist_initial"}) = 1
                /\ StagesCalled(t) =
                       SubSeq(StagesCalled(t), 1, Len(calls[t]) - Len(loop))
                         \o SubSeq(RefinementStages, 1, Len(loop))
                /\ pc[t] = "done" =>
                       IF Len(loop) = 4 /\ Succeeded(loop[4])
                       THEN /\ LoopSucceeded(t)
                            /\ outcome[t].returned.roadmap = loop[4].reply.content
                            /\ outcome[t].returned.metadata.iterations = 3
                       ELSE /\ HasRaised(outcome[t])
                            /\ Failed(loop[Len(loop)])
                            /\ outcome[t].raised =
                                   Err_refinement_failed \o Cause(loop[Len(loop)])

C8_Witness ==
    \E t \in threads :
        /\ pc[t] = "done"
        /\ frame[t].route = "iot"
        /\ SynthesisRaised(t)
        /\ ProcessedInputs[encoding][request[t]].processing_type = "chunked"
        /\ LoopSucceeded(t)

\* C9: when a call of the refinement loop has failed, whether the loop was
\* entered by the dispatch or by the fallback after a synthesis, the request
\* is over, process_project_request has raised "Multi-agent refinement
\* failed: " followed by the cause, refine_project_detailed has raised the
\* same, and no call of any pipeline follows the failed one.
C9_LoopFailurePropagates ==
    \A t \in threads :
        \A k \in 1..Len(calls[t]) :
            IsLoopCall(calls[t][k]) /\ Failed(calls[t][k]) =>
                /\ pc[t] = "done"
                /\ outcome[t] = Raised(Err_refinement_failed \o Cause(calls[t][k]))
                /\ api[t] = "refine_project_detailed" => result[t] = outcome[t]
                /\ Len(calls[t]) = k
                /\ \A j \in 1..(k - 1) : ~(IsLoopCall(calls[t][j]) /\ Failed(calls[t][j]))

C9_Witness ==
    \E t \in threads :
        /\ pc[t] = "done"
        /\ api[t] = "refine_project_detailed"
        /\ frame[t].route = "complex"
        /\ SynthesisRaised(t)
        /\ Failed(calls[t][Len(calls[t])])
        /\ HasRaised(result[t])

\* 'Error processing project:'
ErrorStringPrefix ==
    <<"E","r","r","o","r"," ","p","r","o","c","e","s","s","i","n","g"," ","p","r","o","j","e","c",
      "t",":">>

\* C10: when a request made with refine_project is over, refine_project has
\* returned, not raised; what it returned is the roadmap of the run (the
\* synthesized roadmap, or the text of the final evaluation) if
\* process_project_request returned, and "Error processing project: "
\* followed by the error if process_project_request raised.
C10_RefineProjectNeverRaises ==
    \A t \in threads :
        pc[t] = "done" /\ api[t] = "refine_project" =>
            /\ "returned" \in DOMAIN result[t]
            /\ "raised" \notin DOMAIN result[t]
            /\ result[t].returned # None
            /\ IF "returned" \in DOMAIN outcome[t]
               THEN result[t].returned =
                        (IF SynthesisReturned(t) THEN frame[t].synthesis.returned.roadmap
                         ELSE calls[t][Len(calls[t])].reply.content)
               ELSE /\ StartsWith(result[t].returned, ErrorStringPrefix)
                    /\ result[t].returned = ErrorStringPrefix \o <<" ">> \o outcome[t].raised

C10_Witness ==
    \E t \in threads :
        /\ pc[t] = "done"
        /\ api[t] = "refine_project"
        /\ HasRaised(outcome[t])
        /\ frame[t].route = "iot"
        /\ StartsWith(result[t].returned, ErrorStringPrefix)

\* C11: the step history in the metadata of a successful run of the refinement
\* loop is the four records of that run and nothing else: no record of an
\* earlier request of the same orchestrator is in it.
C11_HistoryOfThisRunOnly ==
    \A t \in threads :
        LoopSucceeded(t) =>
            LET history == outcome[t].returned.metadata.workflow_history
            IN  /\ Len(history) = 4
                /\ \A k \in 1..4 : history[k].step_type = RefinementStages[k]

\* the iteration number of the step a record is of
IterationOfStep(step_type) ==
    StepIterations[CHOOSE k \in 1..4 : RefinementStages[k] = step_type]

\* C12: when refinement-loop requests are served concurrently by the one
\* orchestrator, every step record carries the iteration number of its own
\* step (1, 1, 2, 3) and every successful result reports 3 iterations.
C12_IterationsOfOwnSteps ==
    /\ \A k \in 1..Len(workflow_history) :
           workflow_history[k].iteration = IterationOfStep(workflow_history[k].step_type)
    /\ \A t \in threads :
           LoopSucceeded(t) => outcome[t].returned.metadata.iterations = 3

\* the stages of the synthesis pipeline a request was dispatched to
PipelineStages(t) == IF frame[t].route = "complex" THEN ComplexStages ELSE IoTStages

\* the stage results of the first n stages made from the request's own calls
RECURSIVE OwnResults(_, _)
OwnResults(t, n) ==
    IF n = 0 THEN EmptyDict
    ELSE LET stage == PipelineStages(t)[n]
         IN  Put(OwnResults(t, n - 1), ResultsKey(stage),
                 AgentResult(stage, StageCall(t, stage).reply))

\* C13: when synthesis requests are served concurrently by the shared
\* coordinator, what a request gets back is built from the results of its own
\* stage calls only: the analyses, the confidence map and the roadmap are
\* those of its own calls, and the implementation stage of the generic
\* pipeline was handed its own four earlier results.
C13_OwnStageResultsOnly ==
    \A t \in threads :
        SynthesisReturned(t) =>
            LET returned == frame[t].synthesis.returned
                own == OwnResults(t, Len(PipelineStages(t)))
                roadmap == IF frame[t].route = "complex"
                           THEN _synthesize_comprehensive_roadmap(own)
                           ELSE _synthesize_iot_roadmap(own)
            IN  /\ returned.agent_analyses = own
                /\ returned.metadata.confidence_scores = _get_confidence_scores(own)
                /\ roadmap = Returned(returned.roadmap)
                /\ frame[t].route = "complex" =>
                       StageCall(t, "implementation").args = <<OwnResults(t, 4)>>

\* C14: within one request no stage issues a second LLM call, and a failed
\* call is not followed by another call of its stage: a failed step of the
\* refinement loop is the last call of the request, which is over, and the
\* call after a failed synthesis stage is the call of the next stage.
C14_NoRetry ==
    \A t \in threads :
        /\ \A j, k \in 1..Len(calls[t]) :
               calls[t][j].stage = calls[t][k].stage => j = k
        /\ \A k \in 1..Len(calls[t]) :
               Failed(calls[t][k]) =>
                   IF IsLoopCall(calls[t][k])
                   THEN k = Len(calls[t]) /\ pc[t] = "done"
                   ELSE LET stages == PipelineStages(t)
                        IN  k < Len(stages) =>
                                /\ Len(calls[t]) > k
                                /\ calls[t][k + 1].stage = stages[k + 1]

C14_Witness ==
    \E t \in threads :
        /\ pc[t] = "done"
        /\ frame[t].route = "complex"
        /\ \E j \in 1..Len(calls[t]) :
               /\ Failed(calls[t][j])
               /\ calls[t][j].reply.kind = "raise"
               /\ calls[t][j].stage \in Range(ComplexStages)
        /\ Failed(calls[t][Len(calls[t])])
        /\ IsLoopCall(calls[t][Len(calls[t])])

\* the provider never answers the call a request has in flight: the thread
\* stays in its blocking completion call, which is given no timeout
NoReply(t) ==
    /\ pc[t] \notin {"idle", "done", "blocked"}
    /\ pc' = [pc EXCEPT ![t] = "blocked"]
    /\ UNCHANGED <<current_iteration, workflow_history, multi_agent_coordinator,
                   iot_coordinator, api, request, frame, calls, outcome, result, requests,
                   faults, fixed>>

\* one request, every call free to fail or never to be answered
NextNoReply == Next \/ \E t \in threads : NoReply(t)
SpecNoReply == InitOne /\ [][NextNoReply]_vars

\* C15: every LLM call is bounded by a timeout, so a request never stays in a
\* call for ever: as long as the request is not over it has a step to take,
\* also when the provider does not answer the call in flight.
C15_EveryCallTimesOut ==
    \A t \in threads : pc[t] \in {"idle", "done"} \/ ENABLED NextNoReply

\* C16: whenever process_project_request has returned, by the refinement
\* loop, by a synthesis pipeline or by the fallback from one, what it returned
\* has a roadmap field and a metadata field.
C16_RoadmapAndMetadata ==
    \A t \in threads :
        pc[t] = "done" /\ "returned" \in DOMAIN outcome[t] =>
            {"roadmap", "metadata"} \subseteq DOMAIN outcome[t].returned

C16_Witness ==
    \E t \in threads :
        /\ pc[t] = "done"
        /\ SynthesisRaised(t)
        /\ LoopSucceeded(t)
        /\ outcome[t].returned.roadmap = Reply("refiner_final")

\* C17: the metadata of every result refine_project_detailed returns has a
\* processing_type field, whichever pipeline produced the result.
C17_ProcessingTypePresent ==
    \A t \in threads :
        /\ pc[t] = "done"
        /\ api[t] = "refine_project_detailed"
        /\ "returned" \in DOMAIN result[t]
        => "processing_type" \in DOMAIN result[t].returned.metadata

\* C18: a run of the IoT synthesis calls exactly the four stages hardware
\* requirements, component research, technical architecture, implementation
\* guide, in that order, and the workflow history it returns holds exactly
\* four stage records, one per stage.
C18_FourIoTStagesRecorded ==
    \A t \in threads :
        frame[t].route = "iot" /\ SynthesisReturned(t) =>
            /\ SubSeq(StagesCalled(t), 1, Len(IoTStages)) = IoTStages
            /\ Len(calls[t]) = Len(IoTStages)
            /\ Len(frame[t].synthesis.returned.workflow_history) = Len(IoTStages)

\* C19: an input that is only a greeting ("hi") is rejected by the validation
\* of the orchestrator before any pipeline runs: the request is over at once
\* and no agent call is made for it.
C19_GreetingIsRejected ==
    \A t \in threads :
        pc[t] # "idle" /\ InputTexts[request[t]] = Text_hi =>
            /\ calls[t] = <<>>
            /\ pc[t] = "done"

----------------------------------------------------------------------------
(* The TextProcessor on its own: prepare_input and process_input applied to *)
(* a text                                                                   *)

\* prepare_input is called with the text
PrepareInput ==
    /\ probe # NoProbe
    /\ prepared = Pending
    /\ prepared' = prepare_input(encoding, probe)
    /\ UNCHANGED <<served, setup, processed, chunked, summarized, detected_type, detected_complex>>

\* process_input is called with the text
ProcessInput ==
    /\ probe # NoProbe
    /\ processed = Pending
    /\ processed' = process_input(encoding, probe)
    /\ UNCHANGED <<served, setup, prepared, chunked, summarized, detected_type, detected_complex>>

\* chunk_text is called with the text
ChunkText ==
    /\ probe # NoProbe
    /\ chunked = Pending
    /\ chunked' = [chunks |-> chunk_text(probe), windows |-> chunk_windows(probe)]
    /\ UNCHANGED <<served, setup, prepared, processed, summarized, detected_type, detected_complex>>

\* summarize_chunks is called with the chunks chunk_text returned
SummarizeChunks ==
    /\ chunked # Pending
    /\ summarized = Pending
    /\ summarized' = Returned(summarize_chunks(chunked.chunks))
    /\ UNCHANGED <<served, setup, prepared, processed, chunked, detected_type,
                   detected_complex>>

NextText == PrepareInput \/ ProcessInput \/ ChunkText \/ SummarizeChunks

InitText ==
    Init /\ ~budgeted /\ threads = {"main"} /\ probe \in ProbeTexts \cup ChunkTexts /\ Installed
SpecText == InitText /\ [][NextText]_vars

\* C20: for a text of at most 2000 tokens, exactly 2000 included,
\* prepare_input returns type direct and process_input returns mode direct,
\* each with the text unchanged as content and with the text's token count.
C20_DirectUpToThreshold ==
    count_tokens(encoding, probe) <= 2000 =>
        /\ prepared # Pending =>
               prepared = [type |-> "direct", content |-> probe,
                           token_count |-> count_tokens(encoding, probe)]
        /\ processed # Pending =>
               processed = [processing_type |-> "direct", content |-> probe,
                            token_count |-> count_tokens(encoding, probe)]

C20_Witness ==
    /\ count_tokens(encoding, probe) = 2000
    /\ Len(probe) > chunk_size
    /\ prepared # Pending
    /\ processed # Pending
    /\ processed.processing_type = "direct"

----------------------------------------------------------------------------
(* chunk_text: the windows it cuts                                          *)

\* the characters of the text a window holds: text[start:end] stops at the
\* end of the text
Positions(w) == w.start..(Min(w.end, Len(probe)) - 1)

\* the chunks are the windows' slices, stripped, the empty ones left out
RECURSIVE ChunksOf(_, _, _)
ChunksOf(text, cut, n) ==
    IF n > Len(cut) THEN <<>>
    ELSE LET chunk == Strip(Slice(text, cut[n].start, cut[n].end))
         IN  (IF chunk # <<>> THEN <<chunk>> ELSE <<>>) \o ChunksOf(text, cut, n + 1)

\* C21: a text of more than 2000 tokens is prepared in mode chunked, and the
\* windows of chunk_text cover it: every character position lies in a window,
\* the first window starts at position 0 and some window ends at the end of
\* the text.
C21_ChunkedAndCovered ==
    count_tokens(encoding, probe) > 2000 =>
        /\ prepared # Pending => prepared.type = "chunked"
        /\ processed # Pending => processed.processing_type = "chunked"
        /\ chunked # Pending =>
               /\ \A p \in 0..(Len(probe) - 1) :
                      \E n \in DOMAIN chunked.windows : p \in Positions(chunked.windows[n])
               /\ chunked.windows[1].start = 0
               /\ \E n \in DOMAIN chunked.windows :
                      Min(chunked.windows[n].end, Len(probe)) = Len(probe)
               /\ Len(probe) > chunk_size =>
                      chunked.chunks = ChunksOf(probe, chunked.windows, 1)

C21_Witness ==
    /\ count_tokens(encoding, probe) > 2000
    /\ prepared # Pending
    /\ chunked # Pending
    /\ Len(chunked.windows) >= 3
    /\ \E n \in DOMAIN chunked.windows :
           /\ chunked.windows[n].end < Len(probe)
           /\ chunked.windows[n].end % chunk_size # 0
----------------------------------------------------------------------------
(* chunk_text: where a window is cut                                        *)

Terminators == {".", "!", "?"}

\* the right edge of a window before the search for a break
Edge(w) == w.start + chunk_size

\* the last 200 characters of a window: the lookback from its right edge
LookbackOf(w) == Max(Edge(w) - Lookback, w.start)..(Edge(w) - 1)

\* the offsets in a set at which the text has a sentence terminator
TerminatorsIn(offsets) == {i \in offsets : i < Len(probe) /\ probe[i + 1] \in Terminators}

\* the largest offset of a non-empty set
Last(offsets) == CHOOSE i \in offsets : \A j \in offsets : j <= i

\* C22: a window that does not reach the end of the text and has a sentence
\* terminator among its last 200 characters is cut right after the terminator
\* nearest to its right edge; it is cut at the right edge only when these
\* characters hold no terminator.
C22_CutAfterNearestTerminator ==
    chunked # Pending /\ Len(probe) > chunk_size =>
        \A n \in DOMAIN chunked.windows :
            LET w == chunked.windows[n]
                found == TerminatorsIn(LookbackOf(w))
            IN  Edge(w) < Len(probe) =>
                    w.end = IF found # {} THEN Last(found) + 1 ELSE Edge(w)

\* the offsets in a set at which a blank line starts: two newlines in a row
ParagraphBreaksIn(offsets) ==
    {i \in offsets : (i + 1) \in offsets /\ i + 1 < Len(probe)
                       /\ probe[i + 1] = "\n" /\ probe[i + 2] = "\n"}

\* C23: a window that does not reach the end of the text and has a blank-line
\* paragraph break, but no sentence terminator, among its last 200 characters
\* is cut at that paragraph break, not at its right edge.
C23_CutAtParagraphBreak ==
    chunked # Pending /\ Len(probe) > chunk_size =>
        \A n \in DOMAIN chunked.windows :
            LET w == chunked.windows[n]
                breaks == ParagraphBreaksIn(LookbackOf(w))
            IN  /\ Edge(w) < Len(probe)
                /\ TerminatorsIn(LookbackOf(w) \cup {Edge(w)}) = {}
                /\ breaks # {}
                => \E b \in breaks : w.end \in b..(b + 2)

\* C24: every window after the first starts exactly overlap_size (200)
\* characters before the end of the window before it, and the two share
\* exactly 200 characters of the text.
C24_FixedOverlap ==
    chunked # Pending =>
        \A n \in 2..Len(chunked.windows) :
            /\ chunked.windows[n].start = chunked.windows[n - 1].end - overlap_size
            /\ Cardinality(Positions(chunked.windows[n - 1]) \cap Positions(chunked.windows[n]))
                 = overlap_size
----------------------------------------------------------------------------
(* The token count of a chunked input                                       *)

\* C25: for a chunked input, the token count carried with the prepared input
\* through the refinement run, which is the count the Generator is told, is
\* the token count of the original text, not that of the summary and not the
\* sum over the overlapping chunks.
C25_OriginalTokenCount ==
    \A t \in threads :
        frame[t].prepared_input # Pending /\ frame[t].prepared_input.type = "chunked" =>
            LET original == count_tokens(encoding, InputTexts[request[t]])
            IN  /\ frame[t].prepared_input.token_count = original
                /\ \A k \in DOMAIN calls[t] :
                       calls[t][k].stage = "strategist_initial" =>
                           calls[t][k].args = <<strategist_input(
                               [frame[t].prepared_input EXCEPT !.token_count = original])>>
----------------------------------------------------------------------------
(* chunk_text followed by summarize_chunks                                  *)

\* C26: for a text of at most chunk_size characters chunk_text returns the
\* text alone and unmodified, and summarize_chunks of that result is the
\* text unchanged.
C26_RoundTripOfShortText ==
    Len(probe) <= chunk_size =>
        /\ chunked # Pending => chunked.chunks = <<probe>>
        /\ summarized # Pending => summarized = Returned(probe)

C26_Witness ==
    /\ Len(probe) = chunk_size
    /\ Strip(probe) # probe
    /\ summarized = Returned(probe)
----------------------------------------------------------------------------
(* The two keyword tests on their own: _detect_project_type of the          *)
(* Strategist and _is_complex_ai_project of the orchestrator                *)

\* _detect_project_type is called with the description
DetectProjectType ==
    /\ probe # NoProbe
    /\ detected_type = Pending
    /\ detected_type' = Returned(_detect_project_type(probe))
    /\ UNCHANGED <<served, setup, prepared, processed, chunked, summarized, detected_complex>>

\* _is_complex_ai_project is called with the description
IsComplexAIProject ==
    /\ probe # NoProbe
    /\ detected_complex = Pending
    /\ detected_complex' = Returned(_is_complex_ai_project(probe))
    /\ UNCHANGED <<served, setup, prepared, processed, chunked, summarized, detected_type>>

NextClassify == DetectProjectType \/ IsComplexAIProject

InitClassify ==
    Init /\ ~budgeted /\ threads = {"main"} /\ probe \in ClassifierTexts /\ Installed
SpecClassify == InitClassify /\ [][NextClassify]_vars

\* the keyword occurs in the description, letter case apart
Occurs(keyword) == Contains(Lower(probe), keyword)

\* some keyword of the list occurs in the description
Matches(keywords) == \E n \in DOMAIN keywords : Occurs(keywords[n])

\* the buckets in the order of the claim
BucketOrder ==
    <<[type |-> "iot_hardware", keywords |-> type_keywords.iot],
      [type |-> "mobile_app", keywords |-> type_keywords.mobile],
      [type |-> "web_platform", keywords |-> type_keywords.web],
      [type |-> "ai_ml", keywords |-> type_keywords.ai],
      [type |-> "ecommerce", keywords |-> type_keywords.ecommerce]>>

\* the type of the first bucket that matches, general_software if none does
FirstMatch ==
    LET hits == {k \in DOMAIN BucketOrder : Matches(BucketOrder[k].keywords)}
    IN  IF hits = {} THEN "general_software"
        ELSE BucketOrder[CHOOSE k \in hits : \A j \in hits : k <= j].type

\* C27: _detect_project_type returns the type of the first bucket, in the
\* order iot_hardware, mobile_app, web_platform, ai_ml, ecommerce, of which a
\* keyword occurs in the description, letter case apart, and general_software
\* when none matches; a description with a web and an e-commerce keyword and
\* neither an IoT nor a mobile keyword is a web_platform; the descriptions of
\* test_project_type_detection get the types the test expects.
C27_FirstBucketWins ==
    detected_type # Pending =>
        /\ detected_type = Returned(FirstMatch)
        /\ /\ Matches(type_keywords.web) /\ Matches(type_keywords.ecommerce)
           /\ ~Matches(type_keywords.iot) /\ ~Matches(type_keywords.mobile)
           => detected_type = Returned("web_platform")
        /\ \A n \in DOMAIN test_inputs :
               probe = test_inputs[n].description =>
                   detected_type = Returned(test_inputs[n].expected)

C27_Witness ==
    /\ detected_type = Returned("web_platform")
    /\ Matches(type_keywords.web)
    /\ Matches(type_keywords.ecommerce)

\* the entries of the broad keyword list that occur in the description
KeywordsMatched == {n \in DOMAIN ai_keywords : Occurs(ai_keywords[n])}

\* C28: _is_complex_ai_project is true exactly when a strong-AI phrase occurs
\* together with a research term or a market term, or at least 5 entries of
\* the broad keyword list occur, letter case apart; the result depends on
\* nothing but the description.
C28_ComplexAIExactly ==
    detected_complex # Pending =>
        detected_complex =
            Returned(\/ Matches(ai_terms) /\ (Matches(research_terms) \/ Matches(market_terms))
                     \/ Cardinality(KeywordsMatched) >= 5)

C28_Witness ==
    /\ detected_complex = Returned(TRUE)
    /\ ~Matches(ai_terms)
    /\ Cardinality(KeywordsMatched) = 5
    /\ Lower(probe) # probe
----------------------------------------------------------------------------
(* The web app from its start-up: the credentials may be missing and the    *)
(* component lookup may be absent                                           *)

\* the route /api/refine-project answers a request while project_api is None
Unavailable(t) ==
    /\ pc[t] \in {"idle", "done"}
    /\ project_api = None
    /\ requests < MaxRequests
    /\ requests' = requests + 1
    /\ rejected' = [rejected EXCEPT ![t] = ApiUnavailable]
    /\ pc' = [pc EXCEPT ![t] = "done"]
    /\ UNCHANGED <<current_iteration, workflow_history, multi_agent_coordinator,
                   iot_coordinator, api, request, frame, calls, outcome, result, faults,
                   setup, prepared, processed, chunked, summarized, detected_type,
                   detected_complex, chunking>>

NextApp == Next \/ \E t \in threads : Unavailable(t)

InitApp == Init /\ ~budgeted /\ threads = {"main"} /\ probe = NoProbe
SpecApp == InitApp /\ [][NextApp]_vars

\* C29: whether the lookup module is missing or its call raises, the Draft
\* step does not fail because of it: once the refinement loop is entered the
\* component data is empty, the Strategist's call for the draft is issued
\* with the input alone, and the run fails only when an LLM call has failed.
C29_LookupNeverFailsDraft ==
    \A t \in threads :
        frame[t].prepared_input # Pending =>
            /\ frame[t].component_data = <<>>
            /\ \E k \in DOMAIN calls[t] :
                   /\ calls[t][k].stage = "strategist_initial"
                   /\ calls[t][k].args = <<strategist_input(frame[t].prepared_input)>>
            /\ pc[t] = "done" /\ HasRaised(outcome[t]) =>
                   \E k \in DOMAIN calls[t] : Failed(calls[t][k])

C29_Witness ==
    \E t \in threads :
        /\ component_searcher = ComponentSearcher
        /\ frame[t].component_data = <<>>
        /\ LoopSucceeded(t)

\* the credentials that are not set
MissingKeys == Range(RequiredKeys) \ api_keys

\* C30: with a credential missing the construction of the orchestrator fails
\* with an error that names every missing key, before any agent or
\* coordinator is constructed; project_api is None and stays None; every
\* refine request is answered with the error of the route, and no LLM call
\* is made.
C30_MissingKeyIsFatal ==
    /\ [](MissingKeys # {} =>
            /\ MultiAgentOrchestrator_init(api_keys).constructed = <<>>
            /\ \A key \in MissingKeys :
                   Contains(MultiAgentOrchestrator_init(api_keys).error, key)
            /\ project_api = None
            /\ \A t \in threads :
                   /\ calls[t] = <<>>
                   /\ result[t] = Pending
                   /\ pc[t] = "done" => rejected[t] = ApiUnavailable)
    /\ [][project_api = None => project_api' = None]_vars

C30_Witness ==
    /\ Cardinality(MissingKeys) = 2
    /\ requests = MaxRequests
    /\ \E t \in threads : rejected[t] = ApiUnavailable
----------------------------------------------------------------------------
(* The refinement loop: what each step is handed                            *)

\* the text a call returned
Output(call) == call.reply.content

\* C31: in the refinement loop the Critique is called with the draft alone,
\* the Revise with the draft and the critique and not with the text the
\* Draft was called with, the Finalize with the revised roadmap alone; and
\* the roadmap of the result of a loop that succeeded is the text the
\* Finalize returned, which is what refine_project returns, never the draft,
\* the critique or the revised roadmap.
C31_LoopDataFlow ==
    \A t \in threads :
        LET loop == LoopCalls(t)
        IN  /\ Len(loop) >= 2 =>
                   /\ loop[2].stage = "refiner_feedback_1"
                   /\ loop[2].args = <<Output(loop[1])>>
            /\ Len(loop) >= 3 =>
                   /\ loop[3].stage = "strategist_refined"
                   /\ loop[3].args = <<Output(loop[1]), Output(loop[2])>>
                   /\ \A n \in DOMAIN loop[3].args : loop[3].args[n] # loop[1].args[1]
            /\ Len(loop) >= 4 =>
                   /\ loop[4].stage = "refiner_final"
                   /\ loop[4].args = <<Output(loop[3])>>
            /\ LoopSucceeded(t) =>
                   /\ Len(loop) = 4
                   /\ outcome[t].returned.roadmap = Output(loop[4])
                   /\ \A k \in 1..3 : outcome[t].returned.roadmap # Output(loop[k])
                   /\ api[t] = "refine_project" => result[t] = Returned(Output(loop[4]))

C31_Witness ==
    \E t \in threads :
        /\ LoopSucceeded(t)
        /\ frame[t].route = "chunked"
        /\ api[t] = "refine_project"
        /\ Len(LoopCalls(t)) = 4
        /\ result[t] = Returned(Reply("refiner_final"))
----------------------------------------------------------------------------
(* The generic synthesis pipeline: what each stage is handed                *)

\* the output of a stage a later stage is to see: the text its call returned,
\* the empty string when its call raised
Upstream(t, stage) ==
    IF StageCall(t, stage).reply.kind = "raise" THEN <<>> ELSE Output(StageCall(t, stage))

----------------------------------------------------------------------------
(* The error of a refinement run                                            *)

\* the request ran the refinement loop and the loop raised
LoopFailed(t) ==
    /\ pc[t] = "done"
    /\ LoopCalls(t) # <<>>
    /\ HasRaised(outcome[t])

\* the error texts the four steps of the loop raise
StepErrorPrefixes == [n \in 1..4 |-> StageErrorPrefix(RefinementStages[n])]

\* C33: the error of a refinement run that failed names the step that
\* failed: the error prefixes of draft, critique, revise and finalize are
\* pairwise distinct (none begins with another), and the error of the run is
\* the loop's error wrapping the prefix of the step called last, the only
\* one that failed, followed by the message of the failed LLM call.
C33_ErrorNamesFailedStep ==
    /\ \A m, n \in 1..4 :
           m # n => ~StartsWith(StepErrorPrefixes[m], StepErrorPrefixes[n])
    /\ \A t \in threads :
           LoopFailed(t) =>
               LET loop == LoopCalls(t)
                   last == loop[Len(loop)]
               IN  /\ \A k \in 1..(Len(loop) - 1) : Succeeded(loop[k])
                   /\ \E message \in ApiErrors :
                          outcome[t].raised =
                              Err_refinement_failed \o StageErrorPrefix(last.stage) \o message
----------------------------------------------------------------------------
(* Failed stages of a synthesis and the fallback                            *)

\* the calls of the synthesis stages among the calls of a request
IsSynthesisCall(call) == ~IsLoopCall(call)
SynthesisCalls(t) == SelectSeq(calls[t], IsSynthesisCall)

\* the stage's agent caught an exception of its completion call
Errored(call) == call.reply # Pending /\ call.reply.kind = "raise"

\* the fixed blocks of the roadmap of a pipeline, with no section between
BareRoadmap(route) ==
    IF route = "complex" THEN Join(ComplexHeader \o ComplexClosing, <<"\n">>)
    ELSE Join(IoTHeader \o IoTClosing, <<"\n">>)

----------------------------------------------------------------------------
(* What the calls of a request depend on                                    *)

\* what the prompt of a call takes from its arguments
PromptInputs(call) ==
    IF call.stage = "implementation" THEN <<implementation_inputs(call.args[1])>>
    ELSE call.args

\* the calls a request has issued, each as its stage with these inputs
CallsMade(t) ==
    [k \in DOMAIN calls[t] |->
        [stage |-> calls[t][k].stage, inputs |-> PromptInputs(calls[t][k])]]

\* the outcomes of the calls of a request that are over, in call order
OutcomesSoFar(t) ==
    LET over == SelectSeq(calls[t], LAMBDA call : call.reply # Pending)
    IN  [k \in DOMAIN over |-> over[k].reply]

\* the route of description i, from the text alone (the classifiers and
\* process_input applied to it)
RouteOf(e, i) ==
    Dispatch(Classified[i].complex_ai, Classified[i].iot_hardware,
             ProcessedInputs[e][i].processing_type)

\* the calls that description i with the outcomes `outs` of its calls so far
\* is to make, computed from the text and these outcomes and from nothing
\* else: the stages of its synthesis pipeline, if any, each with the texts of
\* the stages before it; then, if it has no synthesis or the synthesis met a
\* stage without text, the steps of the loop as far as they succeeded
CallsOf(e, i, outs) ==
    LET route == RouteOf(e, i)
        text == InputTexts[i]
        synth == IF route = "complex" THEN ComplexStages
                 ELSE IF route = "iot" THEN IoTStages ELSE <<>>
        n == Len(synth)
        out(k) == IF outs[k].kind = "raise" THEN <<>> ELSE outs[k].content
        SynthCall(k) ==
            [stage |-> synth[k],
             inputs |-> CASE route = "iot" \/ k = 1 -> <<text>>
                          [] route = "complex" /\ k = 2 -> <<text, out(1)>>
                          [] route = "complex" /\ k = 3 -> <<text, out(2)>>
                          [] route = "complex" /\ k = 4 -> <<text, out(1), out(2)>>
                          [] route = "complex" /\ k = 5 ->
                               <<[market_analysis |-> out(1), technical_architecture |-> out(2),
                                  ai_design |-> out(3), business_strategy |-> out(4)]>>]
        no_text(o) == o.kind = "text" /\ o.content = None
        loop_entered ==
            n = 0 \/ (Len(outs) >= n /\ \E k \in 1..n : no_text(outs[k]))
        loop_text ==
            IF route = "chunked" THEN strategist_input(ChunkedInputs[e][i])
            ELSE ProcessedInputs[e][i].content
        loop_outs == SubSeq(outs, n + 1, Len(outs))
        succeeded == {k \in DOMAIN loop_outs :
                         \A j \in 1..k : loop_outs[j].kind = "text" /\ ~no_text(loop_outs[j])}
        LoopCall(k) ==
            [stage |-> RefinementStages[k],
             inputs |-> CASE k = 1 -> <<loop_text>>
                          [] k = 2 -> <<loop_outs[1].content>>
                          [] k = 3 -> <<loop_outs[1].content, loop_outs[2].content>>
                          [] k = 4 -> <<loop_outs[3].content>>]
    IN  [k \in 1..Min(n, Len(outs) + 1) |-> SynthCall(k)]
          \o (IF loop_entered
              THEN [k \in 1..Min(4, Cardinality(succeeded) + 1) |-> LoopCall(k)]
              ELSE <<>>)

\* C35: the route of a request and the calls it makes are a function of its
\* text and of the outcomes of its own calls: whatever workflow_history,
\* current_iteration and the stored analysis results hold from the requests
\* served before, the request is on the route of its text and has made the
\* calls, stage by stage and input by input, that the text and the outcomes
\* so far determine.
C35_CallsDependOnRequestOnly ==
    \A t \in threads :
        pc[t] # "idle" =>
            LET made == CallsMade(t)
                due == CallsOf(encoding, request[t], OutcomesSoFar(t))
            IN  /\ frame[t].route = RouteOf(encoding, request[t])
                /\ [k \in DOMAIN made |-> made[k].stage] = [k \in DOMAIN due |-> due[k].stage]
                /\ \A k \in DOMAIN made : made[k].inputs = due[k].inputs

C35_Witness ==
    \E t \in threads :
        /\ requests = 2
        /\ pc[t] = "done"
        /\ frame[t].route = "complex"
        /\ workflow_history # <<>>
        /\ current_iteration = 3
        /\ Len(calls[t]) = 5
        /\ "implementation" \in DOMAIN calls[t][5].args[1]
----------------------------------------------------------------------------
(* chunk_text: the size of a chunk                                          *)

\* C36: no chunk chunk_text returns is longer than chunk_size characters,
\* whether it was cut at a break or at the raw window boundary.
C36_ChunkWithinChunkSize ==
    chunked # Pending =>
        \A n \in DOMAIN chunked.chunks : Len(chunked.chunks[n]) <= chunk_size
----------------------------------------------------------------------------
(* chunk_text pass by pass: the while loop of a TextProcessor constructed   *)
(* with its sizes                                                           *)

\* lines 29-40: the end of the window that starts at st.start, after the
\* search for a break in the last Lookback characters before the edge
LoopEnd(text, st) ==
    LET edge == st.start + st.chunk_size
        search_start == Max(edge - Lookback, st.start)
        found == IF edge < Len(text)
                 THEN {i \in (search_start + 1)..edge : text[i + 1] \in {".", "!", "?"}}
                 ELSE {}
    IN  IF found # {} THEN (CHOOSE i \in found : \A j \in found : j <= i) + 1 ELSE edge

\* variant: the next window starts overlap_size before the end of the text
\* when the window reaches beyond it (C37 fails under it)
LoopBody_clipped(text, st, end, chunk) ==
    LET start == Min(end, Len(text)) - st.overlap_size
    IN  [st EXCEPT !.chunks = IF chunk # <<>> THEN Append(@, chunk) ELSE @,
                   !.windows = Append(@, [start |-> st.start, end |-> end]),
                   !.start = start,
                   !.at = IF start >= Len(text) THEN "return" ELSE "while"]

\* the rest of a pass, lines 42-52: the chunk is appended unless it is empty
\* and start moves to end - overlap_size; the loop is left by the break or by
\* its test, which are the same test
LoopBody(text, st, end, chunk) ==
    LET start == end - st.overlap_size
    IN  [st EXCEPT !.chunks = IF chunk # <<>> THEN Append(@, chunk) ELSE @,
                   !.windows = Append(@, [start |-> st.start, end |-> end]),
                   !.start = start,
                   !.at = IF start >= Len(text) THEN "return" ELSE "while"]

\* chunk_text is called on the text by a TextProcessor of the sizes p: a text
\* of at most chunk_size characters is returned at once, otherwise the loop
\* is entered with start = 0
EnterChunkText(p) ==
    /\ probe # NoProbe
    /\ chunking = Pending
    /\ chunking' =
           IF Len(probe) <= p.chunk_size
           THEN [chunk_size |-> p.chunk_size, overlap_size |-> p.overlap_size, start |-> 0,
                 chunks |-> <<probe>>, windows |-> <<>>, at |-> "return"]
           ELSE [chunk_size |-> p.chunk_size, overlap_size |-> p.overlap_size, start |-> 0,
                 chunks |-> <<>>, windows |-> <<>>, at |-> "while"]
    /\ UNCHANGED <<current_iteration, workflow_history, multi_agent_coordinator,
                   iot_coordinator, pc, api, request, frame, calls, outcome, result,
                   requests, faults, rejected, setup, prepared, processed, chunked,
                   summarized, detected_type, detected_complex>>

\* the loop makes a pass: end is found, text[start:end] is stripped, and the
\* rest of the body runs
LoopPass ==
    /\ chunking # Pending
    /\ chunking.at = "while"
    /\ Len(chunking.windows) < MaxPasses
    /\ \E end \in {LoopEnd(probe, chunking)} :
       \E window \in {Slice(probe, chunking.start, end)} :
       \E chunk \in {Strip(window)} :
           chunking' = LoopBody(probe, chunking, end, chunk)
    /\ UNCHANGED <<current_iteration, workflow_history, multi_agent_coordinator,
                   iot_coordinator, pc, api, request, frame, calls, outcome, result,
                   requests, faults, rejected, setup, prepared, processed, chunked,
                   summarized, detected_type, detected_complex>>

NextLoop == (\E p \in Processors : EnterChunkText(p)) \/ LoopPass

InitLoop ==
    Init /\ ~budgeted /\ threads = {"main"} /\ encoding = 1 /\ probe \in ChunkTexts \cup LoopTexts
      /\ Installed

\* the interpreter runs the loop on: a pass that can be made is made
SpecLoop == InitLoop /\ [][NextLoop]_vars /\ WF_vars(LoopPass)

\* the TextProcessor has the default sizes
DefaultSizes == chunking.chunk_size = chunk_size /\ chunking.overlap_size = overlap_size

\* C37: chunk_text terminates, with the default sizes and with any sizes
\* whose chunk_size exceeds the lookback plus the overlap: start is never
\* negative, every pass of the loop moves it forward, so there are fewer
\* passes than the text has characters, and a call that entered the loop
\* returns.
C37_LoopTerminates ==
    /\ [](chunking # Pending /\ chunking.chunk_size > Lookback + chunking.overlap_size =>
            /\ chunking.start >= 0
            /\ Len(chunking.chunks) <= Len(chunking.windows) \/ chunking.windows = <<>>
            /\ Len(chunking.windows) < Max(Len(probe), 2)
            /\ chunking.at = "return" /\ DefaultSizes => chunking.chunks = chunk_text(probe))
    /\ [][chunking # Pending /\ chunking' # chunking => chunking'.start > chunking.start]_vars
    /\ (chunking # Pending) ~> (chunking # Pending /\ chunking.at = "return")

C37_Witness ==
    /\ chunking # Pending
    /\ chunking.at = "return"
    /\ DefaultSizes
    /\ Len(chunking.windows) = 3
    /\ Len(chunking.chunks) = 3
----------------------------------------------------------------------------
(* chunk_text: the window that reaches the end of the text                  *)

\* the windows whose chunk chunk_text appended: the slice holds a character
\* that strip() keeps
EmittedWindows ==
    {n \in DOMAIN chunked.windows :
        \E i \in Positions(chunked.windows[n]) : ~IsSpace(probe[i + 1])}

\* C38: chunk_text stops after the first window that reaches the end of the
\* text: exactly one window reaches the end of the text, and the window of
\* no emitted chunk lies entirely inside the window of the emitted chunk
\* before it.
C38_StopsAtTextEnd ==
    chunked # Pending =>
        /\ Cardinality({n \in DOMAIN chunked.windows :
                           chunked.windows[n].end >= Len(probe)}) = 1
        /\ \A n \in EmittedWindows : \A m \in EmittedWindows :
               m < n /\ (\A k \in EmittedWindows : ~(m < k /\ k < n)) =>
                   ~(Positions(chunked.windows[n]) \subseteq Positions(chunked.windows[m]))

----------------------------------------------------------------------------
(* What the synthesis stages are given of the input                         *)

\* the texts a call hands to its prompt
TextsGiven(call) ==
    IF call.stage = "implementation"
    THEN {implementation_inputs(call.args[1])[key] :
              key \in DOMAIN implementation_inputs(call.args[1])}
    ELSE Range(call.args)

\* the texts that carry the summary of the chunks of a request's input: the
\* content of the processed input, and the description _execute_workflow
\* builds around the summary; none when the input is processed directly
SummaryTexts(t) ==
    IF ProcessedInputs[encoding][request[t]].processing_type = "chunked"
    THEN {ProcessedInputs[encoding][request[t]].content,
          strategist_input(ChunkedInputs[encoding][request[t]])}
    ELSE {}

\* C39 as claimed: every synthesis stage, the Implementation stage included,
\* is given the original input text.
C39_EverySynthesisStageGivenInput ==
    \A t \in threads :
        pc[t] # "idle" =>
            \A k \in DOMAIN calls[t] :
                IsSynthesisCall(calls[t][k]) =>
                    InputTexts[request[t]] \in TextsGiven(calls[t][k])

\* C39: on the synthesis paths the preprocessing result is not used.  A
\* complex_ai or iot_hardware input of any size starts with a synthesis stage;
\* every synthesis stage but Implementation is given the original text as its
\* description, Implementation is given the texts of the stored results only,
\* and no synthesis stage is given a text that carries the chunk summary.  A
\* call that is given such a text is the Draft step of the loop, and the Draft
\* step of a chunked input is given one, on the refinement path and in the
\* fallback.
C39_SynthesisTakesOriginalText ==
    \A t \in threads :
        pc[t] # "idle" =>
            LET text == InputTexts[request[t]]
                class == Classified[request[t]]
            IN  /\ class.complex_ai \/ class.iot_hardware =>
                       IsSynthesisCall(calls[t][1]) /\ calls[t][1].args = <<text>>
                /\ \A k \in DOMAIN calls[t] :
                       LET call == calls[t][k]
                       IN  /\ IsSynthesisCall(call) /\ call.stage # "implementation" =>
                                  call.args[1] = text
                           /\ IsSynthesisCall(call) => TextsGiven(call) \cap SummaryTexts(t) = {}
                           /\ TextsGiven(call) \cap SummaryTexts(t) # {} =>
                                  call.stage = "strategist_initial"
                           /\ call.stage = "strategist_initial" /\ SummaryTexts(t) # {} =>
                                  call.args[1] \in SummaryTexts(t)

\* a long complex description went through its five stages, each given the
\* original text or the stage texts, and the fallback gave the summary to the
\* Draft step
C39_Witness ==
    \E t \in threads :
        /\ pc[t] = "done"
        /\ Classified[request[t]].complex_ai
        /\ SummaryTexts(t) # {}
        /\ Len(calls[t]) >= 6
        /\ calls[t][4].args[1] = InputTexts[request[t]]
        /\ calls[t][6].stage = "strategist_initial"
        /\ calls[t][6].args = <<ProcessedInputs[encoding][request[t]].content>>

----------------------------------------------------------------------------
(* Every request ends                                                       *)

\* the LLM call thread t waits for returns or fails
Returns(t) ==
    \E o \in AllOutcomes :
        \/ DraftReturns(t, o) \/ CritiqueReturns(t, o) \/ ReviseReturns(t, o)
        \/ FinalizeReturns(t, o)
        \/ MarketReturns(t, o) \/ TechReturns(t, o) \/ AIReturns(t, o)
        \/ BusinessReturns(t, o) \/ ImplReturns(t, o)
        \/ HardwareReturns(t, o) \/ ComponentReturns(t, o) \/ ArchitectReturns(t, o)
        \/ PlannerReturns(t, o)

\* one request, every call free to fail, and every call answered in the end:
\* the completion call is blocking and the provider returns or raises
SpecFair == InitOne /\ [][Next]_vars /\ \A t \in Threads : WF_vars(Returns(t))

\* the stages of the synthesis pipeline of a route, none on the loop's routes
SynthesisStagesOf(route) ==
    IF route = "complex" THEN ComplexStages
    ELSE IF route = "iot" THEN IoTStages
    ELSE <<>>

\* C40: provided every LLM call returns or fails in the end, every request
\* ends with a result or an error after a bounded number of stage calls: at
\* most 4 on the refinement path, at most 5 (generic) or 4 (IoT) synthesis
\* calls on a synthesis path and at most 4 more when the fallback is taken,
\* which happens only after the last synthesis stage; no stage is entered
\* twice in a request; a request that is over has its result and its
\* outcome, and a request that has started is over in the end.
C40_RequestTerminates ==
    /\ [](\A t \in threads :
            pc[t] # "idle" =>
                LET stages == SynthesisStagesOf(frame[t].route)
                    synthesis == Len(SynthesisCalls(t))
                    loop == Len(LoopCalls(t))
                IN  /\ synthesis <= Len(stages)
                    /\ loop <= Len(RefinementStages)
                    /\ Len(calls[t]) = synthesis + loop
                    /\ Len(calls[t]) <= Len(stages) + 4
                    /\ loop > 0 => synthesis = Len(stages)
                    /\ Cardinality(Range(StagesCalled(t))) = Len(calls[t])
                    /\ pc[t] = "done" =>
                           /\ outcome[t] # Pending /\ result[t] # Pending
                           /\ calls[t][Len(calls[t])].reply # Pending)
    /\ \A t \in Threads :
           (t \in threads /\ pc[t] # "idle") ~> (pc[t] = "done")

\* a generic synthesis met a stage without text and the fallback ran its four
\* steps: nine calls, and the request is over with a roadmap
C40_Witness ==
    \E t \in threads :
        /\ pc[t] = "done"
        /\ frame[t].route = "complex"
        /\ Len(calls[t]) = Len(ComplexStages) + 4
        /\ ~HasRaised(outcome[t])

============================================================================
